---- MODULE Spec2Model ----
(***************************************************************************)
(* State-machine model of mcp-sentinel's detection-to-execution pipeline:  *)
(*   - PrometheusDispatcher (dispatcher/prometheus.py): bounded queue,     *)
(*     TTL dedupe cache, worker tasks, start/stop;                         *)
(*   - OpenAIAgentOrchestrator.run_incident (agent/orchestrator.py):       *)
(*     connect / runtime / cleanup phases of one incident;                 *)
(*   - Resource.dedupe_key (models.py) and MCPServerRegistry.resolve       *)
(*     (mcp_integration/registry.py) as operators.                         *)
(* asyncio is a single event loop: everything between two awaits is one    *)
(* atomic step, so each action below runs from one suspension point to the *)
(* next.                                                                   *)
(***************************************************************************)
EXTENDS Integers, Sequences, FiniteSets, TLC

(***************************************************************************)
(* Bounds                                                                  *)
(***************************************************************************)
\* number of clock steps that are explored
MaxTime == 2
\* number of dispatch() calls explored by SpecAdmission
MaxDispatch == 3
\* number of dispatch() calls explored by Spec
MaxLifecycleDispatch == 2
\* number of start() calls that spawn workers
MaxStarts == 2
\* number of stop() calls explored
MaxStops == 2
\* number of sink names in one emit() call
MaxSinkNames == 3
\* number of poll tasks of one watcher that exist at a time
MaxPollTasks == 2
\* number of Watcher.stop() calls in progress at a time
MaxStopCalls == 2
\* entries of the labels and of the annotations of a resource whose key is computed
MaxPairs == 2
\* tool identifiers of the card whose tools are resolved
MaxIdents == 3
\* pieces a duration string is written from, and its length in characters
MaxChunks == 3
MaxChars == 6

\* time.time() is observed on a grid of 5 seconds: the reading after n clock
\* steps.  dedupe_ttl_seconds, at least 10, spans two steps or more.
Seconds(n) == 5 * n

(***************************************************************************)
(* Sequence helpers                                                        *)
(***************************************************************************)
Range(s) == {s[i] : i \in DOMAIN s}

RECURSIVE JoinWith(_, _)
\* str.join: sep.join(parts)
JoinWith(sep, parts) ==
    IF parts = <<>> THEN ""
    ELSE IF Len(parts) = 1 THEN parts[1]
    ELSE parts[1] \o sep \o JoinWith(sep, Tail(parts))

\* the order Python's sorted() gives the strings used as mapping keys here
StrRank(s) ==
    CASE s = "a" -> 1
      [] s = "b" -> 2
      [] s = "c" -> 3
      [] OTHER -> 4

RECURSIVE InsertSorted(_, _)
InsertSorted(p, s) ==
    IF s = <<>> THEN <<p>>
    ELSE IF StrRank(p[1]) <= StrRank(s[1][1]) THEN <<p>> \o s
    ELSE <<s[1]>> \o InsertSorted(p, Tail(s))

\* the items of a mapping left in insertion order
SortedItemsInsertionOrder(items) == items

RECURSIVE SortedItems(_)
\* sorted(mapping.items()) of a dict given as its items in insertion order
SortedItems(items) ==
    IF items = <<>> THEN <<>>
    ELSE InsertSorted(items[1], SortedItems(Tail(items)))

\* [f"{key}={value}" for key, value in pairs]
PairStrings(pairs) == [i \in DOMAIN pairs |-> pairs[i][1] \o "=" \o pairs[i][2]]

(***************************************************************************)
(* Resource.dedupe_key                                                     *)
(***************************************************************************)
\* Resource.dedupe_key(): "|".join of the non-empty parts
dedupe_key(r) ==
    LET label_pairs == JoinWith(",", PairStrings(SortedItems(r.labels)))
        annotation_pairs == JoinWith(",", PairStrings(SortedItems(r.annotations)))
        parts == <<r.type, r.name, label_pairs, annotation_pairs>>
                   \o (IF r.timestamp # "" THEN <<r.timestamp>> ELSE <<>>)
    IN JoinWith("|", SelectSeq(parts, LAMBDA p : p # ""))

(***************************************************************************)
(* Settings: incident cards and tool servers                               *)
(***************************************************************************)
\* a tool identifier after strip() and partition("."): server, sep found, tool
Ident(server, sep, tool) == [server |-> server, sep |-> sep, tool |-> tool]

\* settings.incident_cards, in settings order; two cards name resource "web",
\* and the card in force for it resolves to two server sessions
LifecycleCards ==
    << [name |-> "web-first", resource |-> "web",
        tools |-> <<Ident("grafana", TRUE, "alerts")>>, sinks |-> <<"audit">>],
       [name |-> "web-second", resource |-> "web",
        tools |-> <<Ident("grafana", TRUE, "alerts"), Ident("juju", FALSE, ""),
                    Ident("grafana", TRUE, "search"), Ident("ghost", TRUE, "x")>>,
        sinks |-> <<"audit">>],
       [name |-> "db-card", resource |-> "db",
        tools |-> <<>>, sinks |-> <<>>] >>

\* settings.incident_cards with one server session at most per card
AdmissionCards ==
    << [name |-> "web-first", resource |-> "web",
        tools |-> <<>>, sinks |-> <<"audit">>],
       [name |-> "web-second", resource |-> "web",
        tools |-> <<Ident("grafana", TRUE, "*")>>, sinks |-> <<"audit">>],
       [name |-> "db-card", resource |-> "db",
        tools |-> <<>>, sinks |-> <<>>] >>

\* SentinelSettings of the dispatcher whose start() and stop() are explored
\* (dispatcher values scaled down)
LifecycleSettings ==
    [incident_cards |-> LifecycleCards, queue_size |-> 2,
     dedupe_ttl_seconds |-> 10, worker_concurrency |-> 2]

\* SentinelSettings of the dispatchers whose admission is explored
AdmissionSettings ==
    { [incident_cards |-> AdmissionCards, queue_size |-> q,
       dedupe_ttl_seconds |-> 10, worker_concurrency |-> 1] : q \in {1, 2} }

\* SentinelSettings of a dispatcher with a single worker per start()
SingleWorkerSettings ==
    [incident_cards |-> LifecycleCards, queue_size |-> 2,
     dedupe_ttl_seconds |-> 10, worker_concurrency |-> 1]

TaskIds == 1..(MaxStarts * LifecycleSettings.worker_concurrency)

\* settings.mcp_servers: the registry's configured tool servers
McpServers == {"grafana", "juju"}

NoCard == [name |-> "", resource |-> "", tools |-> <<>>, sinks |-> <<>>]

RECURSIVE CardIndexFirstWins(_, _)
\* a card index in which the first card of a resource wins
CardIndexFirstWins(cards, name) ==
    IF cards = <<>> THEN NoCard
    ELSE IF cards[1].resource = name THEN cards[1]
    ELSE CardIndexFirstWins(Tail(cards), name)

RECURSIVE CardIndex(_, _)
\* self._card_index.get(name) for {card.resource: card for card in cards}:
\* a later card of the same resource overwrites the earlier entry
CardIndex(cards, name) ==
    IF cards = <<>> THEN NoCard
    ELSE IF cards[Len(cards)].resource = name THEN cards[Len(cards)]
    ELSE CardIndex(SubSeq(cards, 1, Len(cards) - 1), name)

(***************************************************************************)
(* Notifications the watchers can hand to dispatch()                       *)
(***************************************************************************)
Res(name, labels, annotations, state) ==
    [type |-> "prometheus_alert", name |-> name, labels |-> labels,
     annotations |-> annotations, state |-> state, timestamp |-> ""]

Resources ==
    { Res("web", <<>>, <<>>, "firing"),
      Res("web", <<>>, <<>>, "pending"),
      Res("web", <<<<"a", "b">>>>, <<>>, "firing"),
      Res("db", <<>>, <<>>, "firing"),
      Res("unknown", <<>>, <<>>, "firing") }

\* the notifications dispatched while start() and stop() are explored
LifecycleResources ==
    { Res("web", <<>>, <<>>, "firing"), Res("db", <<>>, <<>>, "firing") }

Keys == {dedupe_key(r) : r \in Resources}

(***************************************************************************)
(* MCPServerRegistry.resolve                                               *)
(***************************************************************************)
RECURSIVE GroupedServersWithRepeats(_, _)
\* a grouping that adds a key for every identifier, also for a server it has
GroupedServersWithRepeats(idents, seen) ==
    IF idents = <<>> THEN seen
    ELSE LET s == idents[1].server
         IN IF s = ""
            THEN GroupedServersWithRepeats(Tail(idents), seen)
            ELSE GroupedServersWithRepeats(Tail(idents), Append(seen, s))

RECURSIVE GroupedServers(_, _)
\* the keys of `grouped`, in insertion order: one per server component of a
\* non-empty identifier
GroupedServers(idents, seen) ==
    IF idents = <<>> THEN seen
    ELSE LET s == idents[1].server
         IN IF s = "" \/ s \in Range(seen)
            THEN GroupedServers(Tail(idents), seen)
            ELSE GroupedServers(Tail(idents), Append(seen, s))

\* resolve(card.tools): one fresh handle per grouped server the registry knows
Resolve(idents) ==
    SelectSeq(GroupedServers(idents, <<>>), LAMBDA s : s \in McpServers)

(***************************************************************************)
(* State                                                                   *)
(***************************************************************************)
VARIABLES
    settings,       \* PrometheusDispatcher._settings, fixed at construction
    running,        \* PrometheusDispatcher._running
    queue,          \* PrometheusDispatcher._queue: notifications, FIFO
    unfinished,     \* asyncio.Queue._unfinished_tasks (put minus task_done)
    dedupe_cache,   \* PrometheusDispatcher._dedupe_cache: key -> expires_at
    workers,        \* PrometheusDispatcher._workers: list of task ids
    tasks,          \* each worker task: where it is suspended, cancel requested
    run,            \* each worker task's run_incident invocation in flight
    last,           \* the run_incident invocation that exited most recently
    stopCall,       \* the stop() call in progress, if any
    clock,          \* time.time()
    lastDispatch,   \* input and DispatcherResult of the latest dispatch() call
    admitAt,        \* per dedupe key: `now` of its latest admission, or -1
    owed,           \* per dedupe key: admissions minus run_incident calls
    nHandles,       \* handles create_mcp_server has constructed so far
    nDispatch,      \* dispatch() calls so far
    nSpawned,       \* worker tasks created so far
    nStop,          \* stop() calls so far
    sinkRaisers,    \* the configured sinks whose emit() raises
    lastEmit,       \* input and effect of the latest SinkDispatcher.emit call
    wConfig,        \* PrometheusWatcher._resource_defs, fixed at construction
    wRunning,       \* PrometheusWatcher._running
    wTask,          \* PrometheusWatcher._task: a poll task id, or 0 for None
    pollTasks,      \* each poll task: where it is suspended, cancel requested
    poll,           \* each poll task's poll_once call in flight
    wStop,          \* the Watcher.stop() calls in progress
    wEvent,         \* what the latest step of the watcher did
    call,           \* the latest call of a pure function: input and result
    cli             \* cli._run_dispatcher: where it is, and the stop() calls it made

vars == <<settings, running, queue, unfinished, dedupe_cache, workers, tasks, run, last,
          stopCall, clock, lastDispatch, admitAt, owed, nHandles, nDispatch, nSpawned,
          nStop, sinkRaisers, lastEmit, wConfig, wRunning, wTask, pollTasks,
          poll, wStop, wEvent, call, cli>>

sinkVars == <<sinkRaisers, lastEmit>>

watcherVars == <<wConfig, wRunning, wTask, pollTasks, poll, wStop, wEvent>>

mainVars == <<call, cli>>

dispatcherVars == <<queue, unfinished, dedupe_cache, lastDispatch, admitAt,
                    owed, nHandles, nDispatch>>

NoRes == Res("", <<>>, <<>>, "")

\* no run_incident invocation
NoRun == [res |-> NoRes, card |-> NoCard, srv |-> <<>>, idx |-> 0,
          runtime |-> "none", events |-> <<>>]

\* what is recorded of an invocation when run_incident exits
Exited(inv, how) ==
    [srv |-> inv.srv, runtime |-> inv.runtime, events |-> inv.events,
     card |-> inv.card.name, exit |-> how]

NoResult == [res |-> NoRes, status |-> "none", detail |-> "", card |-> NoCard,
             now |-> 0]

\* no emit() call yet
NoEmit == [names |-> <<>>, event |-> "", calls |-> <<>>, outcome |-> "none"]

\* SinkDispatcher.__init__ with sinks that work
SinksInit(raisers) ==
    /\ sinkRaisers = raisers
    /\ lastEmit = NoEmit

PollTaskIds == 1..MaxPollTasks

StopCallIds == 1..MaxStopCalls

\* no HTTP exchange
NoResponse ==
    [http |-> "none", decodable |-> FALSE,
     json |-> [kind |-> "null", text |-> "", items |-> <<>>, fields |-> <<>>]]

\* no poll_once call
NoPoll == [resp |-> NoResponse, alerts |-> <<>>, ai |-> 0, di |-> 0,
           dispatched |-> 0, calls |-> 0]

\* a step of the watcher of this kind by this task, with nothing to report
Did(kind, t) == [kind |-> kind, task |-> t]

\* PrometheusWatcher.__init__ with these resource definitions
WatcherInit(defs) ==
    /\ wConfig = [resource_defs |-> defs]
    /\ wRunning = FALSE
    /\ wTask = 0
    /\ pollTasks = [t \in PollTaskIds |-> [pc |-> "absent", cancel |-> FALSE]]
    /\ poll = [t \in PollTaskIds |-> NoPoll]
    /\ wStop = [c \in StopCallIds |-> [pc |-> "idle", waitFor |-> 0]]
    /\ wEvent = Did("none", 0)

\* no call of a pure function yet
NoCall == [fn |-> "none"]

\* _run_dispatcher as it begins: `started = False`, about to await
\* dispatcher.start(); `at` is where an interrupt reached it, `calls` the
\* stop() calls it has made, `exit_code` the exit status of the process
CliInit == [pc |-> "dispatcher.start", started |-> FALSE, interrupt |-> "none",
            at |-> "none", calls |-> <<>>, exit_code |-> -1]

MainInit ==
    /\ call = NoCall
    /\ cli = CliInit

\* PrometheusDispatcher.__init__(settings, ...), the admissions being counted
\* for these dedupe keys
DispatcherInitFor(s, keys) ==
    /\ settings = s
    /\ running = FALSE
    /\ queue = <<>>
    /\ unfinished = 0
    /\ dedupe_cache = <<>>
    /\ workers = <<>>
    /\ tasks = [t \in TaskIds |-> [pc |-> "absent", cancel |-> FALSE]]
    /\ run = [t \in TaskIds |-> NoRun]
    /\ last = Exited(NoRun, "none")
    /\ stopCall = [pc |-> "idle", waitFor |-> {}]
    /\ clock = 0
    /\ lastDispatch = NoResult
    /\ admitAt = [k \in keys |-> -1]
    /\ owed = [k \in keys |-> 0]
    /\ nHandles = 0
    /\ nDispatch = 0
    /\ nSpawned = 0
    /\ nStop = 0

\* PrometheusDispatcher.__init__(settings, ...)
DispatcherInit(s) == DispatcherInitFor(s, Keys)

\* the dispatcher under study, beside sinks and a watcher that stay idle
InitWith(s) ==
    /\ DispatcherInit(s)
    /\ MainInit
    /\ SinksInit({})
    /\ WatcherInit(<<>>)

Init == InitWith(LifecycleSettings)

InitSingleWorker == InitWith(SingleWorkerSettings)

InitAdmission == \E s \in AdmissionSettings : InitWith(s)

(***************************************************************************)
(* PrometheusDispatcher.dispatch                                           *)
(***************************************************************************)
\* _purge_expired with time.time() = threshold: drop entries expires_at <= t
PurgeExpired(cache, threshold) ==
    [k \in {x \in DOMAIN cache : cache[x] > threshold} |-> cache[k]]

\* a dedupe test that ignores the expiry time
IsDuplicateNoExpiry(cache, key, now) == key \in DOMAIN cache

\* a dedupe test that never hits
IsDuplicateNever(cache, key, now) == FALSE

\* `dedupe_key in self._dedupe_cache and self._dedupe_cache[dedupe_key] > now`
IsDuplicate(cache, key, now) == key \in DOMAIN cache /\ cache[key] > now

\* a queue that accepts one item more than maxsize
QueueFullOffByOne(q) == Len(q) >= settings.queue_size + 1

\* asyncio.Queue(maxsize=queue_size).put_nowait raises QueueFull
QueueFull(q) == Len(q) >= settings.queue_size

\* a dedupe hit that starts the ttl of the entry afresh
CacheAfterDuplicateRefreshed(cache, key, now) ==
    [cache EXCEPT ![key] = now + settings.dedupe_ttl_seconds]

\* the cache on the "dedupe cache hit" return: the entry is only read
CacheAfterDuplicate(cache, key, now) == cache

\* the dedupe entry written although the enqueue failed
CacheAfterDropAlsoInserts(cache, key, now) ==
    [k \in DOMAIN cache \cup {key} |->
        IF k = key THEN now + settings.dedupe_ttl_seconds ELSE cache[k]]

\* the cache on the `except asyncio.QueueFull` path: nothing is inserted
CacheAfterDrop(cache, key, now) == cache

\* an admission that writes no dedupe entry
CacheAfterAdmitNoEntry(cache, key, now) == cache

\* self._dedupe_cache[dedupe_key] = now + ttl_seconds
CacheAfterAdmit(cache, key, now) ==
    [k \in DOMAIN cache \cup {key} |->
        IF k = key THEN now + settings.dedupe_ttl_seconds ELSE cache[k]]

\* a card test that passes whatever the lookup returned
HasCardAlways(card) == TRUE

\* `if not matched_card` fails: the card index has an entry for the resource
HasCard(card) == card # NoCard

\* dispatch(notification): purge at time.time() = clock, then now = time.time()
\* read `later` clock steps after the purge's reading
Dispatch(res, later) ==
    /\ clock + Seconds(later) <= Seconds(MaxTime)
    /\ LET purged == PurgeExpired(dedupe_cache, clock)
           now == clock + Seconds(later)
           key == dedupe_key(res)
           matched_card == CardIndex(settings.incident_cards, res.name)
           Return(status, detail, card) ==
               lastDispatch' = [res |-> res, status |-> status,
                                detail |-> detail, card |-> card, now |-> now]
       IN /\ clock' = now
          /\ nDispatch' = nDispatch + 1
          /\ IF IsDuplicate(purged, key, now)
             THEN /\ Return("duplicate", "dedupe cache hit", NoCard)
                  /\ dedupe_cache' = CacheAfterDuplicate(purged, key, now)
                  /\ UNCHANGED <<queue, unfinished, admitAt, owed>>
             ELSE IF ~HasCard(matched_card)
             THEN /\ Return("dropped", "no incident card", NoCard)
                  /\ dedupe_cache' = purged
                  /\ UNCHANGED <<queue, unfinished, admitAt, owed>>
             ELSE IF QueueFull(queue)
             THEN /\ Return("dropped", "queue full", NoCard)
                  /\ dedupe_cache' = CacheAfterDrop(purged, key, now)
                  /\ UNCHANGED <<queue, unfinished, admitAt, owed>>
             ELSE /\ Return("queued", "", matched_card)
                  /\ queue' = Append(queue, res)
                  /\ unfinished' = unfinished + 1
                  /\ dedupe_cache' = CacheAfterAdmit(purged, key, now)
                  /\ admitAt' = [admitAt EXCEPT ![key] = now]
                  /\ owed' = [owed EXCEPT ![key] = @ + 1]
    /\ UNCHANGED <<sinkVars, watcherVars, mainVars, settings, running, workers, tasks, run, last, stopCall,
                   nSpawned, nStop, nHandles>>

\* the wall clock advances
Tick ==
    /\ clock < Seconds(MaxTime)
    /\ clock' = clock + Seconds(1)
    /\ UNCHANGED <<sinkVars, watcherVars, mainVars, settings, running, workers, tasks, run, last, stopCall,
                   nSpawned, nStop, dispatcherVars>>

(***************************************************************************)
(* PrometheusDispatcher.start / stop                                       *)
(***************************************************************************)
Alive(t) == tasks[t].pc \notin {"absent", "done"}

\* a start() that never takes the early return
AlreadyRunningIgnored(r) == FALSE

\* `if self._running: return` of start()
AlreadyRunning(r) == r

\* the task ids start() creates: range(concurrency) tasks after the `base`
\* tasks created before
SpawnedIds(base) == (base + 1)..(base + settings.worker_concurrency)

\* start(): idempotent while running, else spawn worker_concurrency tasks
Start ==
    /\ IF AlreadyRunning(running)
       THEN UNCHANGED <<running, workers, tasks, nSpawned>>
       ELSE /\ SpawnedIds(nSpawned) \subseteq TaskIds
            /\ running' = TRUE
            /\ tasks' = [t \in TaskIds |->
                  IF t \in SpawnedIds(nSpawned)
                  THEN [pc |-> "new", cancel |-> FALSE] ELSE tasks[t]]
            /\ workers' = workers \o
                  [i \in 1..settings.worker_concurrency |-> nSpawned + i]
            /\ nSpawned' = nSpawned + settings.worker_concurrency
    /\ UNCHANGED <<sinkVars, watcherVars, mainVars, settings, run, last, stopCall, clock, nStop,
                   dispatcherVars>>

\* a stop() that cancels no task
CancelNone(tk, ws) == tk

\* task.cancel() on every task of the list: a finished task is unaffected
CancelAll(tk, ws) ==
    [t \in TaskIds |->
        IF t \in Range(ws) /\ tk[t].pc # "done"
        THEN [tk[t] EXCEPT !.cancel = TRUE] ELSE tk[t]]

\* stop() up to its await: early return when not running, else clear the flag,
\* cancel the listed tasks and gather them (a gather of no task is done at
\* once).  One stop() call is in progress at a time.
StopBegin ==
    /\ stopCall.pc = "idle"
    /\ nStop < MaxStops
    /\ nStop' = nStop + 1
    /\ IF ~running
       THEN UNCHANGED <<running, tasks, workers, stopCall>>
       ELSE /\ running' = FALSE
            /\ tasks' = CancelAll(tasks, workers)
            /\ IF workers = <<>>
               THEN UNCHANGED <<workers, stopCall>>
               ELSE /\ stopCall' = [pc |-> "gather", waitFor |-> Range(workers)]
                    /\ UNCHANGED workers
    /\ UNCHANGED <<sinkVars, watcherVars, mainVars, settings, run, last, clock, nSpawned, dispatcherVars>>

\* stop() after `await asyncio.gather(*self._workers)`: self._workers.clear()
StopReturn ==
    /\ stopCall.pc = "gather"
    /\ \A t \in stopCall.waitFor : tasks[t].pc = "done"
    /\ workers' = <<>>
    /\ stopCall' = [pc |-> "idle", waitFor |-> {}]
    /\ UNCHANGED <<sinkVars, watcherVars, mainVars, settings, running, tasks, run, last, clock, nSpawned,
                   nStop, dispatcherVars>>

(***************************************************************************)
(* PrometheusDispatcher._worker_loop and _handle_notification              *)
(***************************************************************************)
RECURSIVE WorkerLoopLeavesWhenEmpty(_, _, _, _)
\* a worker loop that ends, rather than waits, when the queue is empty
WorkerLoopLeavesWhenEmpty(isRunning, q, unf, got) ==
    IF (~got /\ ~isRunning) \/ q = <<>>
    THEN [pc |-> "done", q |-> q, unf |-> unf, n |-> NoRes]
    ELSE IF CardIndex(settings.incident_cards, Head(q).name) = NoCard
    THEN WorkerLoopLeavesWhenEmpty(isRunning, Tail(q), unf - 1, FALSE)
    ELSE [pc |-> "begin", q |-> Tail(q), unf |-> unf, n |-> Head(q)]

\* a worker loop that takes the newest notification of the queue
WorkerLoopTakesNewest(isRunning, q, unf, got) ==
    IF ~got /\ ~isRunning
    THEN [pc |-> "done", q |-> q, unf |-> unf, n |-> NoRes]
    ELSE IF q = <<>>
    THEN [pc |-> "waiting", q |-> q, unf |-> unf, n |-> NoRes]
    ELSE [pc |-> "begin", q |-> SubSeq(q, 1, Len(q) - 1), unf |-> unf,
          n |-> q[Len(q)]]

RECURSIVE WorkerLoop(_, _, _, _)
\* _worker_loop from the `while self._running` test (got = FALSE) or from a
\* completed `await self._queue.get()` (got = TRUE) up to the next suspension:
\* exit, wait on an empty queue, or begin run_incident for a notification.
\* A notification whose card is missing is skipped and marked done.
WorkerLoop(isRunning, q, unf, got) ==
    IF ~got /\ ~isRunning
    THEN [pc |-> "done", q |-> q, unf |-> unf, n |-> NoRes]
    ELSE IF q = <<>>
    THEN [pc |-> "waiting", q |-> q, unf |-> unf, n |-> NoRes]
    ELSE IF CardIndex(settings.incident_cards, Head(q).name) = NoCard
    THEN WorkerLoop(isRunning, Tail(q), unf - 1, FALSE)
    ELSE [pc |-> "begin", q |-> Tail(q), unf |-> unf, n |-> Head(q)]

\* a registry that keeps one handle per server and returns it again
HandleIdCachedByServer(made, i, name) == IF name = "grafana" THEN 1 ELSE 2

\* the identity of the i-th handle a resolve() call creates, `made` handles
\* having been created before: create_mcp_server constructs a new
\* MCPServerStreamableHttp every time and the registry keeps none
HandleId(made, i, name) == made + i

\* run_incident up to its first await: emit incident.started, resolve the
\* card's tools into fresh server sessions; await connect() of the first
\* session, or runner.run when there is none
NewInvocation(n) ==
    LET card == CardIndex(settings.incident_cards, n.name)
        names == Resolve(card.tools)
    IN [res |-> n, card |-> card,
        srv |-> [i \in DOMAIN names |->
                    [name |-> names[i], id |-> HandleId(nHandles, i, names[i]),
                     connected |-> FALSE, cleanup |-> 0]],
        idx |-> 1,
        runtime |-> IF names = <<>> THEN "invoked" ELSE "none",
        events |-> <<"incident.started">>]

\* worker t continues its loop with `unf` unfinished queue tasks
Proceed(t, unf, got) ==
    LET o == WorkerLoop(running, queue, unf, got)
        inv == NewInvocation(o.n)
    IN /\ queue' = o.q
       /\ unfinished' = o.unf
       /\ IF o.pc = "begin"
          THEN /\ tasks' = [tasks EXCEPT ![t].pc =
                     IF inv.srv = <<>> THEN "running" ELSE "connecting"]
               /\ run' = [run EXCEPT ![t] = inv]
               /\ owed' = [owed EXCEPT ![dedupe_key(o.n)] = @ - 1]
               /\ nHandles' = nHandles + Len(inv.srv)
          ELSE /\ tasks' = [tasks EXCEPT ![t].pc = o.pc]
               /\ run' = [run EXCEPT ![t] = NoRun]
               /\ UNCHANGED <<owed, nHandles>>

\* a worker loop that an exception of run_incident terminates
ExitKillsWorker(t, inv, how) ==
    /\ last' = Exited(inv, how)
    /\ unfinished' = unfinished - 1
    /\ tasks' = [tasks EXCEPT ![t] = [pc |-> "done", cancel |-> FALSE]]
    /\ run' = [run EXCEPT ![t] = NoRun]
    /\ UNCHANGED <<queue, owed, nHandles>>

\* run_incident of worker t returned, or raised an Exception the worker loop
\* swallows: `finally: self._queue.task_done()`, then the loop goes on
ExitToLoop(t, inv, how) ==
    /\ last' = Exited(inv, how)
    /\ Proceed(t, unfinished - 1, FALSE)

\* a cancelled run_incident whose notification is never marked done
ExitCancelledNotDone(t, inv) ==
    /\ last' = Exited(inv, "cancelled")
    /\ tasks' = [tasks EXCEPT ![t] = [pc |-> "done", cancel |-> FALSE]]
    /\ run' = [run EXCEPT ![t] = NoRun]
    /\ UNCHANGED <<queue, unfinished, owed, nHandles>>

\* run_incident of worker t ended with CancelledError: task_done(), and the
\* error ends the worker task
ExitCancelled(t, inv) ==
    /\ last' = Exited(inv, "cancelled")
    /\ unfinished' = unfinished - 1
    /\ tasks' = [tasks EXCEPT ![t] = [pc |-> "done", cancel |-> FALSE]]
    /\ run' = [run EXCEPT ![t] = NoRun]
    /\ UNCHANGED <<queue, owed, nHandles>>

workerFrame == <<sinkVars, watcherVars, mainVars, settings, running, workers, stopCall, clock, nSpawned, nStop,
                 dedupe_cache, lastDispatch, admitAt, nDispatch>>

\* a new worker task runs for the first time
WorkerStart(t) ==
    /\ tasks[t].pc = "new" /\ ~tasks[t].cancel
    /\ Proceed(t, unfinished, FALSE)
    /\ UNCHANGED <<last, workerFrame>>

\* a worker suspended in `await self._queue.get()` is handed a notification
WorkerGet(t) ==
    /\ tasks[t].pc = "waiting" /\ ~tasks[t].cancel
    /\ queue # <<>>
    /\ Proceed(t, unfinished, TRUE)
    /\ UNCHANGED <<last, workerFrame>>

(***************************************************************************)
(* OpenAIAgentOrchestrator.run_incident                                    *)
(***************************************************************************)
\* a connect loop wrapped in the try/finally: connected sessions are cleaned
\* up before the connection error is re-raised
CleanupOnConnectFailure(srv) ==
    [i \in DOMAIN srv |->
        IF srv[i].connected THEN [srv[i] EXCEPT !.cleanup = @ + 1] ELSE srv[i]]

\* the sessions when connect() raises: the connect loop runs before the
\* try/finally, so nothing is cleaned up
AfterConnectFailure(srv) == srv

\* `await mcp_server.connect()` of session idx completes: on success go on to
\* the next session, and to runner.run after the last; on failure re-raise
Connect(t, ok) ==
    /\ tasks[t].pc = "connecting" /\ ~tasks[t].cancel
    /\ LET inv == run[t]
           i == inv.idx
       IN IF ok
          THEN /\ run' = [run EXCEPT ![t] =
                    [inv EXCEPT !.srv[i].connected = TRUE,
                                !.idx = IF i < Len(inv.srv) THEN i + 1 ELSE 1,
                                !.runtime = IF i < Len(inv.srv)
                                            THEN "none" ELSE "invoked"]]
               /\ tasks' = [tasks EXCEPT ![t].pc =
                    IF i < Len(inv.srv) THEN "connecting" ELSE "running"]
               /\ UNCHANGED <<last, queue, unfinished, owed, nHandles>>
          ELSE ExitToLoop(t, [inv EXCEPT !.srv = AfterConnectFailure(inv.srv)],
                          "connect failed")
    /\ UNCHANGED workerFrame

\* a failure path that emits no event
FailureEventsNone(events) == events

\* _emit_failure_event: incident.failure goes to the card's sinks
FailureEvents(events) == Append(events, "incident.failure")

\* _emit_success_event: incident.success goes to the card's sinks
SuccessEvents(events) == Append(events, "incident.success")

\* `await self._runner.run(...)` completes: emit the completion event, then
\* the finally block starts _cleanup_mcp_servers (its first await), or the
\* invocation exits when the card has no server session
RuntimeDone(t, ok) ==
    /\ tasks[t].pc = "running" /\ ~tasks[t].cancel
    /\ LET inv == [run[t] EXCEPT
                      !.runtime = IF ok THEN "returned" ELSE "raised",
                      !.events = IF ok THEN SuccessEvents(@)
                                 ELSE FailureEvents(@),
                      !.idx = 1]
       IN IF inv.srv = <<>>
          THEN ExitToLoop(t, inv, IF ok THEN "returned" ELSE "runtime raised")
          ELSE /\ run' = [run EXCEPT ![t] = inv]
               /\ tasks' = [tasks EXCEPT ![t].pc = "cleanup"]
               /\ UNCHANGED <<last, queue, unfinished, owed, nHandles>>
    /\ UNCHANGED workerFrame

CleanupOutcomes == {"ok", "cleanup raises", "aclose raises"}

\* a cleanup loop that stops at the first session whose cleanup raises
CleanupStopsOnError(i, n, outcome) == outcome = "ok" /\ i < n

\* _cleanup_mcp_servers goes on to the next session whatever the outcome of
\* this one: the try/except Exception is inside the for loop
CleanupContinues(i, n, outcome) == i < n

\* a cleanup step that never calls cleanup()
CleanupInvokedNever(outcome) == FALSE

\* cleanup() of a session is invoked unless an exposed HTTP client's aclose()
\* raised first inside the same try block
CleanupInvoked(outcome) == outcome # "aclose raises"

\* how run_incident exits once the finally block is through
ExitKind(runtime) ==
    CASE runtime = "returned" -> "returned"
      [] runtime = "raised" -> "runtime raised"
      [] OTHER -> "cancelled"

\* one iteration of _cleanup_mcp_servers for session idx; after the last one
\* run_incident returns or re-raises what the runtime raised
Cleanup(t, outcome) ==
    /\ tasks[t].pc = "cleanup" /\ ~tasks[t].cancel
    /\ LET i == run[t].idx
           inv == [run[t] EXCEPT
                      !.srv[i].cleanup =
                          IF CleanupInvoked(outcome) THEN @ + 1 ELSE @,
                      !.idx = i + 1]
       IN IF CleanupContinues(i, Len(inv.srv), outcome)
          THEN /\ run' = [run EXCEPT ![t] = inv]
               /\ UNCHANGED <<tasks, last, queue, unfinished, owed, nHandles>>
          ELSE IF ExitKind(inv.runtime) = "cancelled"
          THEN ExitCancelled(t, inv)
          ELSE ExitToLoop(t, inv, ExitKind(inv.runtime))
    /\ UNCHANGED workerFrame

\* the CancelledError of task.cancel() is thrown into worker t where it is
\* suspended.  It is no Exception: only the `except asyncio.CancelledError`
\* around queue.get() and the finally blocks see it.
Cancelled(t) ==
    /\ tasks[t].cancel
    /\ tasks[t].pc \in {"new", "waiting", "connecting", "running", "cleanup"}
    /\ CASE tasks[t].pc \in {"new", "waiting"} ->
              /\ tasks' = [tasks EXCEPT ![t] = [pc |-> "done", cancel |-> FALSE]]
              /\ UNCHANGED <<run, last, queue, unfinished, owed, nHandles>>
         [] tasks[t].pc = "connecting" ->
              ExitCancelled(t, [run[t] EXCEPT !.srv = AfterConnectFailure(@)])
         [] tasks[t].pc = "running" ->
              LET inv == [run[t] EXCEPT !.runtime = "cancelled", !.idx = 1]
              IN IF inv.srv = <<>>
                 THEN ExitCancelled(t, inv)
                 ELSE /\ run' = [run EXCEPT ![t] = inv]
                      /\ tasks' = [tasks EXCEPT ![t] =
                                      [pc |-> "cleanup", cancel |-> FALSE]]
                      /\ UNCHANGED <<last, queue, unfinished, owed, nHandles>>
         [] tasks[t].pc = "cleanup" ->
              ExitCancelled(t, run[t])
    /\ UNCHANGED workerFrame

(***************************************************************************)
(* SinkDispatcher.emit                                                     *)
(***************************************************************************)
\* SinkDispatcher._sinks: the names of the sinks that were built
ConfiguredSinks == {"audit", "pager"}

\* the sink names incident cards may list
SinkNames == ConfiguredSinks \cup {"ghost"}

\* the event types the orchestrator emits
EventTypes == {"incident.started", "incident.success", "incident.failure"}

RECURSIVE SeqsUpTo(_, _)
\* the sequences over S of length at most n
SeqsUpTo(S, n) ==
    IF n = 0 THEN {<<>>}
    ELSE LET shorter == SeqsUpTo(S, n - 1)
         IN shorter \cup {Append(q, x) : q \in shorter, x \in S}

\* an emit loop that lets the exception of a sink escape
SinkErrorEscapes(sink, raisers) == sink \in raisers

\* `except Exception` around sink.emit(event): nothing escapes the loop
SinkErrorPropagates(sink, raisers) == FALSE

RECURSIVE EmitLoop(_, _, _)
\* the for loop of emit over the remaining names, after the calls made so far
EmitLoop(names, raisers, calls) ==
    IF names = <<>> THEN [calls |-> calls, outcome |-> "returned"]
    ELSE LET sink_name == Head(names)
         IN IF sink_name \notin ConfiguredSinks
            THEN EmitLoop(Tail(names), raisers, calls)
            ELSE IF SinkErrorPropagates(sink_name, raisers)
            THEN [calls |-> Append(calls, sink_name), outcome |-> "raised"]
            ELSE EmitLoop(Tail(names), raisers, Append(calls, sink_name))

\* SinkDispatcher.emit(sink_names, event)
Emit(sink_names, event) ==
    /\ lastEmit' =
          IF sink_names = <<>>
          THEN [names |-> sink_names, event |-> event, calls |-> <<>>,
                outcome |-> "returned"]
          ELSE LET o == EmitLoop(sink_names, sinkRaisers, <<>>)
               IN [names |-> sink_names, event |-> event, calls |-> o.calls,
                   outcome |-> o.outcome]
    /\ UNCHANGED <<sinkRaisers, watcherVars, mainVars, settings, running, workers, tasks,
                   run, last, stopCall, clock, nSpawned, nStop, dispatcherVars>>

(***************************************************************************)
(* JSON values and dicts of the Prometheus watcher                         *)
(***************************************************************************)
\* a decoded JSON value: null, a string, a list, or an object whose fields
\* are <<key, value>> pairs in document order
JNull == [kind |-> "null", text |-> "", items |-> <<>>, fields |-> <<>>]
JStr(s) == [kind |-> "string", text |-> s, items |-> <<>>, fields |-> <<>>]
JList(items) == [kind |-> "list", text |-> "", items |-> items, fields |-> <<>>]
JObj(fields) == [kind |-> "object", text |-> "", items |-> <<>>, fields |-> fields]

\* bool(value) of Python
Truthy(v) ==
    CASE v.kind = "null" -> FALSE
      [] v.kind = "string" -> v.text # ""
      [] v.kind = "list" -> v.items # <<>>
      [] OTHER -> v.fields # <<>>

\* key in mapping, for a dict given as its <<key, value>> items
HasKey(pairs, key) == \E i \in DOMAIN pairs : pairs[i][1] = key

\* mapping[key] for a key that is present
ValueOf(pairs, key) ==
    pairs[CHOOSE i \in DOMAIN pairs : pairs[i][1] = key][2]

\* mapping.get(key, default)
Get(pairs, key, default) ==
    IF HasKey(pairs, key) THEN ValueOf(pairs, key) ELSE default

\* `a or b` of Python
Or(a, b) == IF Truthy(a) THEN a ELSE b

\* dict(value) of a JSON object with string values: its items as
\* <<key, string>> pairs
StrPairs(obj) ==
    [i \in DOMAIN obj.fields |-> <<obj.fields[i][1], obj.fields[i][2].text>>]

\* {**base, **over}: the keys of base in their order, with the values of
\* over where it has the key, then the remaining keys of over
Merge(base, over) ==
    [i \in DOMAIN base |->
        <<base[i][1], Get(over, base[i][1], base[i][2])>>]
    \o SelectSeq(over, LAMBDA p : ~HasKey(base, p[1]))

(***************************************************************************)
(* PrometheusWatcher: resource definitions, alerts and responses           *)
(***************************************************************************)
\* ResourceDefinition objects of the settings
DefWeb ==
    [name |-> "web", type |-> "prometheus_alert",
     filters |-> << <<"alertname", "HighCPU">> >>,
     annotations |-> << <<"runbook", "wiki/cpu">>, <<"team", "ops">> >>]
DefDb ==
    [name |-> "db", type |-> "prometheus_alert",
     filters |-> << <<"alertname", "DiskFull">>, <<"severity", "critical">> >>,
     annotations |-> <<>>]
DefAny ==
    [name |-> "any", type |-> "custom", filters |-> <<>>,
     annotations |-> << <<"team", "core">> >>]

\* the _resource_defs lists of the watchers explored
WatcherConfigs == { <<>>, <<DefWeb, DefDb>>, <<DefWeb, DefAny>> }

\* alerts as the Prometheus API returns them
AlertCpu ==
    JObj(<< <<"labels", JObj(<< <<"alertname", JStr("HighCPU")>>,
                                <<"severity", JStr("warn")>> >>)>>,
            <<"annotations", JObj(<< <<"runbook", JStr("wiki/override")>>,
                                     <<"summary", JStr("cpu")>> >>)>>,
            <<"status", JStr("firing")>>,
            <<"startsAt", JStr("t1")>> >>)
AlertDisk ==
    JObj(<< <<"labels", JObj(<< <<"alertname", JStr("DiskFull")>>,
                                <<"severity", JStr("critical")>> >>)>>,
            <<"annotations", JNull>>,
            <<"status", JObj(<< <<"state", JStr("pending")>> >>)>>,
            <<"activeAt", JStr("t2")>> >>)
AlertDiskNoSeverity ==
    JObj(<< <<"labels", JObj(<< <<"alertname", JStr("DiskFull")>> >>)>> >>)
AlertBare == JObj(<<>>)

\* an HTTP exchange: how the GET ended, whether the body decodes, the body
Response(http, decodable, json) ==
    [http |-> http, decodable |-> decodable, json |-> json]

\* a 2xx response whose body decodes to this value
Body(json) == Response("ok", TRUE, json)

\* a body {"data": {"alerts": alerts}}
AlertsBody(alerts) ==
    Body(JObj(<< <<"data", JObj(<< <<"alerts", alerts>> >>)>> >>))

\* the outcomes of the GET that are explored
Responses ==
    { Response("transport error", FALSE, JNull),
      Response("status error", FALSE, JNull),
      Response("ok", FALSE, JNull),
      Body(JList(<<AlertCpu>>)),
      Body(JObj(<<>>)),
      Body(JObj(<< <<"data", JNull>> >>)),
      Body(JObj(<< <<"data", JStr("x")>> >>)),
      Body(JObj(<< <<"data", JObj(<<>>)>> >>)),
      AlertsBody(JNull),
      AlertsBody(JObj(<< <<"0", AlertCpu>> >>)),
      AlertsBody(JList(<<>>)),
      AlertsBody(JList(<<AlertCpu>>)),
      AlertsBody(JList(<<AlertDisk, AlertCpu>>)),
      AlertsBody(JList(<<AlertDiskNoSeverity>>)),
      AlertsBody(JList(<<AlertCpu, JStr("junk")>>)),
      AlertsBody(JList(<<AlertBare, AlertDiskNoSeverity>>)),
      AlertsBody(JList(<<AlertDisk>>)),
      AlertsBody(JList(<<AlertBare>>)) }

(***************************************************************************)
(* PrometheusWatcher._fetch_alerts, _matches_filters, _handle_alert        *)
(***************************************************************************)
\* value.get(...) raises AttributeError unless the value is a dict
NotAMapping(v) == v.kind # "object"

\* a fetch that lets the error of the GET escape
RequestErrorEscapes(http) == http # "ok"

\* `except httpx.RequestError` and `except httpx.HTTPStatusError` return []:
\* no failure of the GET leaves _fetch_alerts
RequestErrorRaises(http) == FALSE

\* _fetch_alerts once the GET has ended: the alerts it returns, or `raised`
\* when an exception leaves it
FetchAlerts(resp) ==
    LET none == [raised |-> FALSE, alerts |-> <<>>]
        fails == [raised |-> TRUE, alerts |-> <<>>]
        payload == resp.json
        data == Get(payload.fields, "data", JObj(<<>>))
        alerts == Get(data.fields, "alerts", JList(<<>>))
    IN IF RequestErrorRaises(resp.http) THEN fails
       ELSE IF resp.http # "ok" THEN none
       ELSE IF ~resp.decodable THEN none
       ELSE IF NotAMapping(payload) THEN fails
       ELSE IF NotAMapping(data) THEN fails
       ELSE IF alerts.kind # "list" THEN none
       ELSE [raised |-> FALSE, alerts |-> alerts.items]

\* a filter test in which a missing label matches anything
LabelDiffersUnlessMissing(labels, key, expected) ==
    HasKey(labels, key) /\ ValueOf(labels, key) # expected

\* labels.get(key) != expected: a missing label is None, which differs
LabelDiffers(labels, key, expected) ==
    ~HasKey(labels, key) \/ ValueOf(labels, key) # expected

RECURSIVE FilterLoop(_, _)
\* the for loop of _matches_filters over the remaining filter entries
FilterLoop(labels, filters) ==
    IF filters = <<>> THEN TRUE
    ELSE IF LabelDiffers(labels, Head(filters)[1], Head(filters)[2]) THEN FALSE
    ELSE FilterLoop(labels, Tail(filters))

\* _matches_filters(labels, filters)
MatchesFilters(labels, filters) ==
    IF filters = <<>> THEN TRUE ELSE FilterLoop(labels, filters)

\* dict(alert.get(key) or {}): the pairs, or `raised` for a truthy value that
\* is no mapping
DictOf(alert, key) ==
    LET v == Or(Get(alert.fields, key, JNull), JObj(<<>>))
    IN IF v.kind = "object"
       THEN [raised |-> FALSE, pairs |-> StrPairs(v)]
       ELSE [raised |-> TRUE, pairs |-> <<>>]

\* the text of an optional string: None is the empty text
TextOf(v) == IF v.kind = "string" THEN v.text ELSE ""

\* the state _handle_alert reads from alert["status"]
AlertState(alert) ==
    LET status == Get(alert.fields, "status", JNull)
    IN IF status.kind = "object"
       THEN TextOf(Or(Get(status.fields, "state", JNull),
                      Get(status.fields, "value", JNull)))
       ELSE TextOf(status)

\* a resource that takes the definition's annotations only
ResourceAnnotationsOfDefinition(def_annotations, annotations) == def_annotations

\* {**resource_def.annotations, **annotations}
ResourceAnnotations(def_annotations, annotations) ==
    Merge(def_annotations, annotations)

\* the Resource _handle_alert builds for a matching definition
ResourceFor(alert, resource_def) ==
    [type |-> resource_def.type,
     name |-> resource_def.name,
     labels |-> DictOf(alert, "labels").pairs,
     annotations |-> ResourceAnnotations(resource_def.annotations,
                                         DictOf(alert, "annotations").pairs),
     state |-> AlertState(alert),
     timestamp |-> TextOf(Or(Get(alert.fields, "startsAt", JNull),
                             Get(alert.fields, "activeAt", JNull)))]

RECURSIVE NextCall(_, _, _, _)
\* the loops of poll_once and _handle_alert from alert ai, definition di, up
\* to the next await: the dispatch call of a matching definition, the end of
\* the alerts, or an exception
NextCall(alerts, defs, ai, di) ==
    IF ai > Len(alerts) THEN [kind |-> "end", ai |-> ai, di |-> di]
    ELSE LET alert == alerts[ai]
         IN IF NotAMapping(alert) THEN [kind |-> "raise", ai |-> ai, di |-> di]
            ELSE IF DictOf(alert, "labels").raised
                    \/ DictOf(alert, "annotations").raised
            THEN [kind |-> "raise", ai |-> ai, di |-> di]
            ELSE IF di > Len(defs) THEN NextCall(alerts, defs, ai + 1, 1)
            ELSE IF MatchesFilters(DictOf(alert, "labels").pairs,
                                   defs[di].filters)
            THEN [kind |-> "call", ai |-> ai, di |-> di]
            ELSE NextCall(alerts, defs, ai, di + 1)

(***************************************************************************)
(* PrometheusWatcher.start / stop / _poll_loop / poll_once                 *)
(***************************************************************************)
watcherFrame == <<sinkVars, mainVars, settings, running, workers, tasks, run, last,
                  stopCall, clock, nSpawned, nStop, dispatcherVars, wConfig>>

\* a poll task id that is free: the task does not exist, or has finished and
\* no stop() call is awaiting it
FreeTask(t) ==
    /\ pollTasks[t].pc \in {"absent", "done"}
    /\ \A c \in StopCallIds : wStop[c].pc = "await" => wStop[c].waitFor # t

\* a start() that takes no early return
TaskExistsIgnored(task) == FALSE

\* `if self._task is not None: return` of start()
TaskExists(task) == task # 0

\* start(): nothing while a task is set, else set the flag and create the task
WatcherStart ==
    /\ IF TaskExists(wTask)
       THEN /\ wEvent' = Did("start ignored", 0)
            /\ UNCHANGED <<wRunning, wTask, pollTasks, poll>>
       ELSE /\ \E t \in PollTaskIds : FreeTask(t)
            /\ LET t == CHOOSE u \in PollTaskIds :
                          FreeTask(u) /\ \A v \in PollTaskIds : FreeTask(v) => u <= v
               IN /\ wRunning' = TRUE
                  /\ wTask' = t
                  /\ pollTasks' = [pollTasks EXCEPT
                                      ![t] = [pc |-> "new", cancel |-> FALSE]]
                  /\ poll' = [poll EXCEPT ![t] = NoPoll]
                  /\ wEvent' = Did("started", t)
    /\ UNCHANGED <<wStop, watcherFrame>>

\* a stop() that cancels nothing
CancelPollTaskNever(pt, t) == pt

\* self._task.cancel()
CancelPollTask(pt, t) == [pt EXCEPT ![t].cancel = TRUE]

\* stop() call c up to its await: clear the flag; return when no task is set;
\* else cancel the task and await it (no suspension when it has finished)
WatcherStopBegin(c) ==
    /\ wStop[c].pc = "idle"
    /\ \A b \in StopCallIds : wStop[b].pc = "idle" => c <= b
    /\ wRunning' = FALSE
    /\ IF wTask = 0
       THEN /\ wEvent' = Did("stop returned", 0)
            /\ UNCHANGED <<wTask, pollTasks, wStop>>
       ELSE IF pollTasks[wTask].pc = "done"
       THEN /\ wTask' = 0
            /\ wEvent' = Did("stop returned", wTask)
            /\ UNCHANGED <<pollTasks, wStop>>
       ELSE /\ pollTasks' = CancelPollTask(pollTasks, wTask)
            /\ wStop' = [wStop EXCEPT ![c] = [pc |-> "await", waitFor |-> wTask]]
            /\ wEvent' = Did("stop called", wTask)
            /\ UNCHANGED wTask
    /\ UNCHANGED <<poll, watcherFrame>>

\* stop() call c after `await self._task`: self._task = None
WatcherStopReturn(c) ==
    /\ wStop[c].pc = "await"
    /\ pollTasks[wStop[c].waitFor].pc = "done"
    /\ wTask' = 0
    /\ wStop' = [wStop EXCEPT ![c] = [pc |-> "idle", waitFor |-> 0]]
    /\ wEvent' = Did("stop returned", wStop[c].waitFor)
    /\ UNCHANGED <<wRunning, pollTasks, poll, watcherFrame>>

\* `while self._running` of _poll_loop: begin poll_once, which awaits the GET
\* of _fetch_alerts, or leave the loop
LoopTest(t) ==
    /\ poll' = [poll EXCEPT ![t] = NoPoll]
    /\ IF wRunning
       THEN /\ pollTasks' = [pollTasks EXCEPT ![t].pc = "fetching"]
            /\ wEvent' = Did("http", t)
       ELSE /\ pollTasks' = [pollTasks EXCEPT ![t].pc = "done"]
            /\ wEvent' = Did("loop exit", t)

\* a new poll task runs for the first time
PollTaskRun(t) ==
    /\ pollTasks[t].pc = "new" /\ ~pollTasks[t].cancel
    /\ LoopTest(t)
    /\ UNCHANGED <<wRunning, wTask, wStop, watcherFrame>>

\* `await asyncio.sleep(self._poll_interval)` is over
SleepOver(t) ==
    /\ pollTasks[t].pc = "sleeping" /\ ~pollTasks[t].cancel
    /\ LoopTest(t)
    /\ UNCHANGED <<wRunning, wTask, wStop, watcherFrame>>

\* a poll loop that an exception of poll_once terminates
AfterPollEndsOnError(how) == IF how = "poll raised" THEN "done" ELSE "sleeping"

\* _poll_loop after poll_once returned or raised an Exception (which is
\* logged): the task goes to sleep
AfterPoll(how) == "sleeping"

\* poll_once of task t is over, with the frame it ended with
EndPoll(t, how, fr) ==
    /\ pollTasks' = [pollTasks EXCEPT ![t].pc = AfterPoll(how)]
    /\ poll' = [poll EXCEPT ![t] = NoPoll]
    /\ wEvent' = [kind |-> how, task |-> t, resp |-> fr.resp,
                  count |-> fr.dispatched, calls |-> fr.calls]

\* poll_once of task t goes on from alert fr.ai, definition fr.di
Advance(t, fr) ==
    LET defs == wConfig.resource_defs
        n == NextCall(fr.alerts, defs, fr.ai, fr.di)
    IN CASE n.kind = "call" ->
              /\ poll' = [poll EXCEPT ![t] =
                    [fr EXCEPT !.ai = n.ai, !.di = n.di, !.calls = @ + 1]]
              /\ pollTasks' = [pollTasks EXCEPT ![t].pc = "dispatching"]
              /\ wEvent' = [kind |-> "dispatch", task |-> t,
                            alert |-> fr.alerts[n.ai], def |-> defs[n.di],
                            resource |-> ResourceFor(fr.alerts[n.ai], defs[n.di])]
         [] n.kind = "end" -> EndPoll(t, "poll returned", fr)
         [] OTHER -> EndPoll(t, "poll raised", fr)

\* the GET of _fetch_alerts has ended with this response
FetchDone(t, resp) ==
    /\ pollTasks[t].pc = "fetching" /\ ~pollTasks[t].cancel
    /\ LET f == FetchAlerts(resp)
           fr == [NoPoll EXCEPT !.resp = resp, !.alerts = f.alerts,
                                !.ai = 1, !.di = 1]
       IN IF f.raised THEN EndPoll(t, "poll raised", fr)
          ELSE IF f.alerts = <<>> \/ wConfig.resource_defs = <<>>
          THEN EndPoll(t, "poll returned", fr)
          ELSE Advance(t, fr)
    /\ UNCHANGED <<wRunning, wTask, wStop, watcherFrame>>

\* what `await self._dispatcher.dispatch(notification)` may end with
DispatchResults == {"queued", "duplicate", "dropped", "raises"}

\* a count of every dispatch call
CountsAnyStatus(status) == 1

\* `if result.status == "queued": dispatched += 1`
Counts(status) == IF status = "queued" THEN 1 ELSE 0

\* the dispatch call of task t has ended
DispatchDone(t, result) ==
    /\ pollTasks[t].pc = "dispatching" /\ ~pollTasks[t].cancel
    /\ LET fr == poll[t]
       IN IF result = "raises" THEN EndPoll(t, "poll raised", fr)
          ELSE Advance(t, [fr EXCEPT !.dispatched = @ + Counts(result),
                                     !.di = @ + 1])
    /\ UNCHANGED <<wRunning, wTask, wStop, watcherFrame>>

\* the CancelledError of task.cancel() is thrown into poll task t where it is
\* suspended; _poll_loop re-raises it out of the loop and ends
PollCancelled(t) ==
    /\ pollTasks[t].cancel
    /\ pollTasks[t].pc \in {"new", "fetching", "dispatching", "sleeping"}
    /\ pollTasks' = [pollTasks EXCEPT ![t] = [pc |-> "done", cancel |-> FALSE]]
    /\ poll' = [poll EXCEPT ![t] = NoPoll]
    /\ wEvent' = Did("cancelled", t)
    /\ UNCHANGED <<wRunning, wTask, wStop, watcherFrame>>

(***************************************************************************)
(* Calls of the pure functions                                             *)
(***************************************************************************)
\* what a call of a pure function leaves alone
pureFrame == <<sinkVars, watcherVars, cli, settings, running, workers, tasks, run,
               last, stopCall, clock, nSpawned, nStop, dispatcherVars>>

\* label items and annotation items a resource can carry
LabelItems == { <<"a", "b">>, <<"a", "c">>, <<"b", "c">>, <<"c", "a">> }

AnnotationItems == { <<"a", "b">>, <<"b", "c">> }

\* the dicts of at most n of the items, as their items in insertion order
\* (a dict holds each key once)
Dicts(items, n) ==
    { d \in SeqsUpTo(items, n) :
        \A i, j \in DOMAIN d : i # j => d[i][1] # d[j][1] }

\* the resources whose dedupe key is computed
KeyResources ==
    { [type |-> "prometheus_alert", name |-> "web", labels |-> l,
       annotations |-> a, state |-> "firing", timestamp |-> ts] :
        l \in Dicts(LabelItems, MaxPairs),
        a \in Dicts(AnnotationItems, MaxPairs),
        ts \in {"", "t1"} }

\* r1.dedupe_key() and r2.dedupe_key()
DedupeKeys(r1, r2) ==
    /\ call' = [fn |-> "dedupe_key", r1 |-> r1, r2 |-> r2,
                key1 |-> dedupe_key(r1), key2 |-> dedupe_key(r2)]
    /\ UNCHANGED pureFrame

(***************************************************************************)
(* MCPServerRegistry.resolve: the handles and their allowed tools          *)
(***************************************************************************)
\* Optional[List[str]]: None, or a list of tool names
None == [is_none |-> TRUE, tools |-> <<>>]

ToolList(tools) == [is_none |-> FALSE, tools |-> tools]

\* settings.mcp_servers of the registry: grafana has no default_allowed_tools
RegistryServers ==
    { [name |-> "grafana", default_allowed_tools |-> <<>>],
      [name |-> "juju", default_allowed_tools |-> <<"status", "exec", "status">>] }

\* self._servers.get(server_name)
ServerConfig(server_name) ==
    CHOOSE c \in RegistryServers : c.name = server_name

\* the tool names in the order sorted() gives them
ToolOrder == <<"alerts", "exec", "search", "status">>

\* sorted(explicit) of a set of tool names
SortedTools(explicit) == SelectSeq(ToolOrder, LAMBDA tool : tool \in explicit)

RECURSIVE FromKeys(_, _)
\* list(dict.fromkeys(tools)): the first occurrence of each, in order
FromKeys(tools, seen) ==
    IF tools = <<>> THEN seen
    ELSE IF tools[1] \in Range(seen) THEN FromKeys(Tail(tools), seen)
    ELSE FromKeys(Tail(tools), Append(seen, tools[1]))

\* grouped[server] after the loop over the identifiers
GroupOf(idents, server) ==
    LET mine == {i \in DOMAIN idents : idents[i].server = server}
    IN [explicit |-> {idents[i].tool : i \in
                        {j \in mine : idents[j].sep
                                        /\ idents[j].tool \notin {"", "*"}}},
        wildcard |-> \E i \in mine :
                        ~idents[i].sep \/ idents[i].tool \in {"", "*"}]

\* MCPServerRegistry._derive_allowed_tools(server, grouped)
DeriveAllowedTools(server, grouped) ==
    IF grouped.wildcard \/ grouped.explicit = {}
    THEN IF server.default_allowed_tools # <<>>
         THEN ToolList(FromKeys(server.default_allowed_tools, <<>>))
         ELSE None
    ELSE ToolList(SortedTools(grouped.explicit))

\* create_mcp_server(server_config): the handle is built from the server's
\* url, headers and name; it takes no allowed tools and sets no tool filter
CreateMcpServer(server_config) ==
    [name |-> server_config.name, allowed_tools |-> None]

RECURSIVE ResolvedLoop(_, _, _)
\* `for server_name, grouped_tools in grouped.items()` of resolve
ResolvedLoop(servers, idents, resolved) ==
    IF servers = <<>> THEN resolved
    ELSE IF servers[1] \notin McpServers
    THEN ResolvedLoop(Tail(servers), idents, resolved)
    ELSE LET server_config == ServerConfig(servers[1])
             allowed_tools == DeriveAllowedTools(server_config,
                                                 GroupOf(idents, servers[1]))
         IN IF ~allowed_tools.is_none /\ allowed_tools.tools = <<>>
            THEN ResolvedLoop(Tail(servers), idents, resolved)
            ELSE ResolvedLoop(Tail(servers), idents,
                    Append(resolved, CreateMcpServer(server_config)))

\* MCPServerRegistry.resolve(tool_identifiers): the handles it returns
ResolveHandles(idents) ==
    IF idents = <<>> THEN <<>>
    ELSE ResolvedLoop(GroupedServers(idents, <<>>), idents, <<>>)

\* the tool identifiers a card can list, after strip() and partition(".")
Identifiers ==
    { Ident("grafana", TRUE, "*"), Ident("grafana", FALSE, ""),
      Ident("grafana", TRUE, "alerts"), Ident("grafana", TRUE, "search"),
      Ident("juju", TRUE, "status"), Ident("ghost", TRUE, "x"),
      Ident("", FALSE, "") }

\* registry.resolve(idents); run_incident hands the handles to the Agent as
\* its mcp_servers
ResolveCall(idents) ==
    /\ call' = [fn |-> "resolve", idents |-> idents,
                handles |-> ResolveHandles(idents)]
    /\ UNCHANGED pureFrame

(***************************************************************************)
(* cli._run_dispatcher                                                     *)
(***************************************************************************)
\* what a step of _run_dispatcher itself leaves alone
cliFrame == <<sinkVars, watcherVars, call, settings, running, workers, tasks, run,
              last, stopCall, clock, nSpawned, nStop, dispatcherVars>>

\* the exceptions the `try` of _run_dispatcher handles
InterruptKinds == {"KeyboardInterrupt", "CancelledError"}

\* where _run_dispatcher is inside its `try`
InTry == {"dispatcher.start", "watcher.start", "sleep"}

\* `await dispatcher.start()` has returned: `started = True`, then
\* `await watcher_service.start()`
CliStarted ==
    /\ cli.pc = "dispatcher.start"
    /\ running
    /\ cli' = [cli EXCEPT !.started = TRUE, !.pc = "watcher.start"]
    /\ UNCHANGED cliFrame

\* `await watcher_service.start()` has returned: `while True: await
\* asyncio.sleep(1)`
CliWatching ==
    /\ cli.pc = "watcher.start"
    /\ wTask # 0
    /\ cli' = [cli EXCEPT !.pc = "sleep"]
    /\ UNCHANGED cliFrame

\* An interrupt reaches _run_dispatcher inside the `try`: a KeyboardInterrupt
\* raised in the call it is making, or the CancelledError of a cancelled main
\* task, which is thrown where the task is suspended (the sleep).  Either
\* handler logs, and the `finally` follows.
Interrupt(kind) ==
    /\ cli.pc \in InTry
    /\ kind = "CancelledError" => cli.pc = "sleep"
    /\ cli' = [cli EXCEPT !.pc = "finally", !.interrupt = kind, !.at = cli.pc]
    /\ UNCHANGED cliFrame

\* `finally: await watcher_service.stop()`
CliFinally ==
    /\ cli.pc = "finally"
    /\ cli' = [cli EXCEPT !.pc = "watcher.stop",
                          !.calls = Append(@, "watcher.stop")]
    /\ UNCHANGED cliFrame

\* a `finally` that stops the dispatcher whether or not it was started
StopDispatcherAlways(started) == TRUE

\* `if started:` of the `finally`
StopDispatcher(started) == started

\* exit status of the process when asyncio.run(_run_dispatcher(settings))
\* returns and `run` ends
ExitCode == 0

\* watcher_service.stop() has returned: `if started: await dispatcher.stop()`,
\* else the coroutine returns
CliWatcherStopped ==
    /\ cli.pc = "watcher.stop"
    /\ wEvent.kind = "stop returned"
    /\ IF StopDispatcher(cli.started)
       THEN cli' = [cli EXCEPT !.pc = "dispatcher.stop",
                               !.calls = Append(@, "dispatcher.stop")]
       ELSE cli' = [cli EXCEPT !.pc = "exited", !.exit_code = ExitCode]
    /\ UNCHANGED cliFrame

\* dispatcher.stop() has returned: the coroutine returns
CliDispatcherStopped ==
    /\ cli.pc = "dispatcher.stop"
    /\ nStop > 0 /\ stopCall.pc = "idle"
    /\ cli' = [cli EXCEPT !.pc = "exited", !.exit_code = ExitCode]
    /\ UNCHANGED cliFrame

(***************************************************************************)
(* models._parse_duration_seconds                                          *)
(***************************************************************************)
\* A str is the sequence of its characters.  A number is a decimal: sign,
\* whole part, and the fraction num / den with den a power of ten.
Decimal(neg, whole, num, den) == [neg |-> neg, whole |-> whole, num |-> num, den |-> den]

DigitChars == <<"0", "1", "2", "3", "4", "5", "6", "7", "8", "9">>

IsDigit(c) == c \in Range(DigitChars)

DigitValue(c) == (CHOOSE i \in 1..10 : DigitChars[i] = c) - 1

RECURSIVE DigitsValue(_)
\* the number a sequence of digits denotes
DigitsValue(ds) ==
    IF ds = <<>> THEN 0
    ELSE 10 * DigitsValue(SubSeq(ds, 1, Len(ds) - 1)) + DigitValue(ds[Len(ds)])

RECURSIVE PowerOfTen(_)
PowerOfTen(n) == IF n = 0 THEN 1 ELSE 10 * PowerOfTen(n - 1)

RECURSIVE LStrip(_)
LStrip(s) == IF s # <<>> /\ s[1] = " " THEN LStrip(Tail(s)) ELSE s

RECURSIVE RStrip(_)
RStrip(s) ==
    IF s # <<>> /\ s[Len(s)] = " " THEN RStrip(SubSeq(s, 1, Len(s) - 1)) ELSE s

\* str.strip()
Strip(s) == RStrip(LStrip(s))

LowerChar(c) == CASE c = "S" -> "s" [] c = "M" -> "m" [] c = "H" -> "h" [] OTHER -> c

\* str.lower()
Lower(s) == [i \in 1..Len(s) |-> LowerChar(s[i])]

\* str.endswith(suffix)
EndsWith(s, suffix) ==
    /\ Len(s) >= Len(suffix)
    /\ SubSeq(s, Len(s) - Len(suffix) + 1, Len(s)) = suffix

\* s[:-n]
DropLast(s, n) == SubSeq(s, 1, Len(s) - n)

\* float(text) of a text of digits, sign, point and blanks: surrounding blanks
\* are skipped, then an optional sign, then digits with at most one point and
\* at least one digit; anything else is a ValueError
ParseFloat(text) ==
    LET t == Strip(text)
        signed == t # <<>> /\ t[1] \in {"-", "+"}
        body == IF signed THEN Tail(t) ELSE t
        points == {i \in 1..Len(body) : body[i] = "."}
        cut == IF points = {} THEN Len(body) + 1 ELSE CHOOSE i \in points : TRUE
        int == SubSeq(body, 1, cut - 1)
        frac == SubSeq(body, cut + 1, Len(body))
        valid == /\ Cardinality(points) <= 1
                 /\ \A i \in 1..Len(body) : IsDigit(body[i]) \/ body[i] = "."
                 /\ Len(int) + Len(frac) >= 1
    IN IF valid
       THEN [ok |-> TRUE,
             value |-> Decimal(signed /\ t[1] = "-", DigitsValue(int),
                               DigitsValue(frac), PowerOfTen(Len(frac)))]
       ELSE [ok |-> FALSE, value |-> Decimal(FALSE, 0, 0, 1)]

\* d * 0.001
Thousandth(d) ==
    Decimal(d.neg, d.whole \div 1000, (d.whole % 1000) * d.den + d.num, d.den * 1000)

\* d * k for a whole k
Times(d, k) ==
    Decimal(d.neg, d.whole * k + (d.num * k) \div d.den, (d.num * k) % d.den, d.den)

\* the unit suffix of a stripped and lowered text: "ms" first, then the
\* last character if it is one of s, m, h
Suffix(text) ==
    IF EndsWith(text, <<"m", "s">>) THEN "ms"
    ELSE IF text[Len(text)] \in {"s", "m", "h"} THEN text[Len(text)]
    ELSE ""

Multiplied(d, unit) ==
    CASE unit = "ms" -> Thousandth(d)
      [] unit = "m" -> Times(d, 60)
      [] unit = "h" -> Times(d, 3600)
      [] OTHER -> d

\* `seconds <= 0`
NotPositive(d) == d.neg \/ (d.whole = 0 /\ d.num = 0)

\* round(seconds) of a positive number: to the nearest whole, a half to the
\* even neighbour
Round(d) ==
    IF 2 * d.num > d.den THEN d.whole + 1
    ELSE IF 2 * d.num = d.den /\ d.whole % 2 = 1 THEN d.whole + 1
    ELSE d.whole

\* a result that may be 0
AtLeastZero(n) == n

\* max(1, n)
AtLeastOne(n) == IF n < 1 THEN 1 ELSE n

Raises(error) == [ok |-> FALSE, seconds |-> 0, error |-> error]

\* the tail of _parse_duration_seconds once `seconds` is known
Normalised(d) ==
    IF NotPositive(d) THEN Raises("ValueError")
    ELSE [ok |-> TRUE, seconds |-> AtLeastOne(Round(d)), error |-> "none"]

\* _parse_duration_seconds(value): value is an int or a float (a decimal), or
\* a str (its characters)
parse_duration_seconds(value) ==
    IF value.type \in {"int", "float"} THEN Normalised(value.number)
    ELSE LET text == Lower(Strip(value.chars))
         IN IF text = <<>> THEN Raises("ValueError")
            ELSE LET unit == Suffix(text)
                     f == ParseFloat(DropLast(text, Len(unit)))
                 IN IF f.ok THEN Normalised(Multiplied(f.value, unit))
                    ELSE Raises("ValueError")

\* the pieces duration strings are written from
Chunks ==
    { <<"5">>, <<"1">>, <<"2">>, <<"0">>, <<"0", "0", "0">>, <<"5", "0", "0">>,
      <<"0", ".", "5">>, <<"1", ".", "5">>, <<"2", ".", "5">>, <<".">>, <<"-">>,
      <<" ">>, <<"m", "s">>, <<"s">>, <<"m">>, <<"h">>, <<"S">>, <<"x">> }

RECURSIVE Flatten(_)
Flatten(parts) == IF parts = <<>> THEN <<>> ELSE Head(parts) \o Flatten(Tail(parts))

Str(chars) == [type |-> "str", chars |-> chars]
IntValue(n) == [type |-> "int", number |-> Decimal(n < 0, IF n < 0 THEN -n ELSE n, 0, 1)]
FloatValue(neg, whole, tenths) ==
    [type |-> "float", number |-> Decimal(neg, whole, tenths, 10)]

\* the values a settings file gives a duration field
DurationValues ==
    { Str(c) : c \in { f \in { Flatten(parts) : parts \in SeqsUpTo(Chunks, MaxChunks) } :
                          Len(f) <= MaxChars } }
    \cup { IntValue(n) : n \in {-5, 0, 1, 5, 60} }
    \cup { FloatValue(neg, w, t) : neg \in BOOLEAN, w \in 0..2, t \in {0, 4, 5, 6} }

ParseDuration(value) ==
    /\ call' = [fn |-> "parse_duration_seconds", value |-> value,
                result |-> parse_duration_seconds(value)]
    /\ UNCHANGED pureFrame

(***************************************************************************)
(* MCPServerRegistry.resolve: the identifiers as the card writes them      *)
(***************************************************************************)
\* A text is the sequence of its pieces: a blank, a dot, or a run of other
\* characters.
\* str.partition("."): the text before the first dot, whether there is a
\* dot, and the text after it
Partition(text) ==
    LET dots == {i \in DOMAIN text : text[i] = "."}
    IN IF dots = {}
       THEN [before |-> text, sep |-> FALSE, after |-> <<>>]
       ELSE LET d == CHOOSE i \in dots : \A j \in dots : i <= j
            IN [before |-> SubSeq(text, 1, d - 1), sep |-> TRUE,
                after |-> SubSeq(text, d + 1, Len(text))]

\* the string of a text of at most one piece
Word(text) == IF text = <<>> THEN "" ELSE text[1]

\* `identifier.strip()` and `identifier.partition(".")` of the loop over the
\* identifiers; an identifier that is empty after strip() has no server
ParseIdentifier(text) ==
    LET identifier == Strip(text)
        parts == Partition(identifier)
    IN Ident(Word(parts.before), parts.sep, Word(parts.after))

\* the identifiers a card can list; each holds at most one piece on either
\* side of its first dot
IdentifierTexts ==
    { <<"grafana">>, <<"grafana", ".">>, <<"grafana", ".", "*">>,
      <<"grafana", ".", "alerts">>, <<" ", "grafana", ".", "*", " ">>,
      <<"juju">>, <<"juju", ".">>, <<"juju", ".", "status">>,
      <<"ghost">>, <<"ghost", ".", "x">>,
      <<>>, <<" ">>, <<".", "status">> }

\* registry.resolve(tool_identifiers)
ResolveIdentifiers(texts) ==
    LET idents == [i \in DOMAIN texts |-> ParseIdentifier(texts[i])]
    IN /\ call' = [fn |-> "resolve", texts |-> texts, idents |-> idents,
                   handles |-> ResolveHandles(idents)]
       /\ UNCHANGED pureFrame

(***************************************************************************)
(* PromptRenderer.render                                                   *)
(***************************************************************************)
\* A template is the sequence of its pieces: "$", "{", "}", a blank, or an
\* identifier; no two identifiers are adjacent.
\* _build_context: the keys of the context, here one, and its value
ContextKeys == {"resource_name"}

ContextValue(key) == "web"

\* the identifiers of string.Template and of a format field
IsIdentifier(piece) == piece \in {"resource_name", "missing"}

\* the template from piece i on
From(template, i) == SubSeq(template, i, Len(template))

RECURSIVE SafeSubstitute(_)
\* Template(template).safe_substitute(context): "$$" is "$", "$name" and
\* "${name}" are the value of a key and stay as they are for any other name,
\* and any other "$" stays
SafeSubstitute(t) ==
    IF t = <<>> THEN <<>>
    ELSE IF t[1] # "$" THEN <<t[1]>> \o SafeSubstitute(Tail(t))
    ELSE IF Len(t) >= 2 /\ t[2] = "$"
    THEN <<"$">> \o SafeSubstitute(From(t, 3))
    ELSE IF Len(t) >= 2 /\ IsIdentifier(t[2])
    THEN (IF t[2] \in ContextKeys THEN <<ContextValue(t[2])>> ELSE SubSeq(t, 1, 2))
         \o SafeSubstitute(From(t, 3))
    ELSE IF Len(t) >= 4 /\ t[2] = "{" /\ IsIdentifier(t[3]) /\ t[4] = "}"
    THEN (IF t[3] \in ContextKeys THEN <<ContextValue(t[3])>> ELSE SubSeq(t, 1, 4))
         \o SafeSubstitute(From(t, 5))
    ELSE <<"$">> \o SafeSubstitute(Tail(t))

\* _DefaultDict(context)[field]: the value of a key, "" for anything else
\* (__missing__)
DefaultDictGet(field) ==
    IF Len(field) = 1 /\ field[1] \in ContextKeys
    THEN <<ContextValue(field[1])>> ELSE <<>>

RECURSIVE FormatMap(_, _)
\* template.format_map(_DefaultDict(context)) from text t on, `done` being
\* rendered: "{{" and "}}" are braces, "{field}" is the value looked up; a
\* single "}", a "{" that is not closed, a "{" inside a field and the empty
\* field raise ValueError
FormatMap(t, done) ==
    IF t = <<>> THEN [raised |-> FALSE, text |-> done]
    ELSE IF t[1] = "}"
    THEN IF Len(t) >= 2 /\ t[2] = "}"
         THEN FormatMap(From(t, 3), Append(done, "}"))
         ELSE [raised |-> TRUE, text |-> <<>>]
    ELSE IF t[1] # "{" THEN FormatMap(Tail(t), Append(done, t[1]))
    ELSE IF Len(t) >= 2 /\ t[2] = "{"
    THEN FormatMap(From(t, 3), Append(done, "{"))
    ELSE LET braces == {i \in 2..Len(t) : t[i] \in {"{", "}"}}
             close == IF braces = {} THEN 0
                      ELSE CHOOSE i \in braces : \A j \in braces : i <= j
         IN IF close = 0 \/ t[close] = "{" \/ close = 2
            THEN [raised |-> TRUE, text |-> <<>>]
            ELSE FormatMap(From(t, close + 1),
                           done \o DefaultDictGet(SubSeq(t, 2, close - 1)))

\* `if rendered == template`
Unchanged(rendered, template) == rendered = template

\* PromptRenderer.render(template, notification): the text returned, and
\* whether the except branch was taken
render(template) ==
    LET rendered == SafeSubstitute(template)
    IN IF Unchanged(rendered, template)
       THEN LET formatted == FormatMap(template, <<>>)
            IN IF formatted.raised
               THEN [text |-> template, fell_back |-> TRUE]
               ELSE [text |-> formatted.text, fell_back |-> FALSE]
       ELSE [text |-> rendered, fell_back |-> FALSE]

\* the texts templates are made of
TemplateChunks ==
    { <<"$", "{", "resource_name", "}">>, <<"$", "{", "missing", "}">>,
      <<"{", "resource_name", "}">>, <<"{", "missing", "}">>,
      <<"$", "resource_name">>, <<"$", "missing">>,
      <<" ">>, <<"$">>, <<"{">>, <<"}">> }

\* the templates rendered: at most MaxChunks of the texts in a row
Templates ==
    { Flatten(parts) : parts \in SeqsUpTo(TemplateChunks, MaxChunks) }

\* PromptRenderer().render(template, notification)
Render(template) ==
    /\ call' = [fn |-> "render", template |-> template,
                result |-> render(template)]
    /\ UNCHANGED pureFrame

(***************************************************************************)
(* Specification                                                           *)
(***************************************************************************)
\* The dispatcher's life cycle: start(), stop(), workers and incidents under
\* cancellation, with a few notifications and a clock that stands still.
Next ==
    \/ \E res \in LifecycleResources :
          nDispatch < MaxLifecycleDispatch /\ Dispatch(res, 0)
    \/ Start
    \/ StopBegin
    \/ StopReturn
    \/ \E t \in TaskIds : WorkerStart(t)
    \/ \E t \in TaskIds : WorkerGet(t)
    \/ \E t \in TaskIds, ok \in BOOLEAN : Connect(t, ok)
    \/ \E t \in TaskIds, ok \in BOOLEAN : RuntimeDone(t, ok)
    \/ \E t \in TaskIds, outcome \in CleanupOutcomes : Cleanup(t, outcome)
    \/ \E t \in TaskIds : Cancelled(t)

Spec == Init /\ [][Next]_vars

\* The same life cycle for a dispatcher of one worker per start()
SpecSingleWorker == InitSingleWorker /\ [][Next]_vars

\* Admission: every notification, a running clock, and workers that are
\* started and never stopped.
NextAdmission ==
    \/ \E res \in Resources, later \in {0, 1} :
          nDispatch < MaxDispatch /\ Dispatch(res, later)
    \/ Tick
    \/ Start
    \/ \E t \in TaskIds : WorkerStart(t)
    \/ \E t \in TaskIds : WorkerGet(t)
    \/ \E t \in TaskIds, ok \in BOOLEAN : Connect(t, ok)
    \/ \E t \in TaskIds, ok \in BOOLEAN : RuntimeDone(t, ok)
    \/ \E t \in TaskIds, outcome \in CleanupOutcomes : Cleanup(t, outcome)

SpecAdmission == InitAdmission /\ [][NextAdmission]_vars

\* SinkDispatcher.emit on every list of sink names, with sinks that raise
InitSinks ==
    /\ DispatcherInit(LifecycleSettings)
    /\ MainInit
    /\ WatcherInit(<<>>)
    /\ \E raisers \in SUBSET ConfiguredSinks : SinksInit(raisers)

NextSinks ==
    \E sink_names \in SeqsUpTo(SinkNames, MaxSinkNames), event \in EventTypes :
        Emit(sink_names, event)

SpecSinks == InitSinks /\ [][NextSinks]_vars

\* The polls of one watcher that is started and never stopped, against a
\* dispatcher that answers each dispatch call with any status or with an
\* exception, and an endpoint that answers with any of the responses
InitPoll ==
    /\ DispatcherInit(LifecycleSettings)
    /\ MainInit
    /\ SinksInit({})
    /\ \E defs \in WatcherConfigs : WatcherInit(defs)

NextPoll ==
    \/ WatcherStart
    \/ \E t \in PollTaskIds : PollTaskRun(t)
    \/ \E t \in PollTaskIds : SleepOver(t)
    \/ \E t \in PollTaskIds : \E resp \in Responses : FetchDone(t, resp)
    \/ \E t \in PollTaskIds :
          \E result \in DispatchResults : DispatchDone(t, result)

SpecPoll == InitPoll /\ [][NextPoll]_vars

\* The responses of the life cycle of the watcher: a body that makes the
\* poll raise and a body with an alert to dispatch
LifecycleResponses ==
    { Body(JObj(<< <<"data", JNull>> >>)),
      AlertsBody(JList(<<AlertCpu>>)) }

\* One watcher that is started and stopped by concurrent callers while its
\* poll tasks run
InitWatcher ==
    /\ DispatcherInit(LifecycleSettings)
    /\ MainInit
    /\ SinksInit({})
    /\ WatcherInit(<<DefWeb>>)

\* the steps of poll task t
PollStep(t) ==
    \/ PollTaskRun(t)
    \/ SleepOver(t)
    \/ \E resp \in LifecycleResponses : FetchDone(t, resp)
    \/ \E result \in DispatchResults : DispatchDone(t, result)
    \/ PollCancelled(t)

NextWatcher ==
    \/ WatcherStart
    \/ \E c \in StopCallIds : WatcherStopBegin(c)
    \/ \E c \in StopCallIds : WatcherStopReturn(c)
    \/ \E t \in PollTaskIds : PollStep(t)

SpecWatcher == InitWatcher /\ [][NextWatcher]_vars

\* The sleep between two polls ends: asyncio.sleep(poll_interval_seconds)
\* returns once the interval has passed, and the event loop then runs the task
SpecWatcherLive ==
    /\ InitWatcher
    /\ [][NextWatcher]_vars
    /\ \A t \in PollTaskIds : WF_vars(SleepOver(t))

\* Resource.dedupe_key on every two resources, one call in a behaviour
NextKeys ==
    /\ call = NoCall
    /\ \E r1, r2 \in KeyResources : DedupeKeys(r1, r2)

SpecKeys == InitWith(LifecycleSettings) /\ [][NextKeys]_vars

\* MCPServerRegistry.resolve on every list of identifiers, one call in a
\* behaviour
NextResolve ==
    /\ call = NoCall
    /\ \E idents \in SeqsUpTo(Identifiers, MaxIdents) : ResolveCall(idents)

SpecResolve == InitWith(LifecycleSettings) /\ [][NextResolve]_vars

\* the notifications of two incidents of one card whose tools resolve to two
\* handles
HandleResources ==
    { Res("web", <<>>, <<>>, "firing"), Res("web", <<<<"a", "b">>>>, <<>>, "firing") }

\* Concurrent incidents: two workers, notifications of the same card, and
\* every outcome of connect(), of the runtime and of cleanup()
NextHandles ==
    \/ \E res \in HandleResources :
          nDispatch < MaxLifecycleDispatch /\ Dispatch(res, 0)
    \/ Start
    \/ \E t \in TaskIds : WorkerStart(t)
    \/ \E t \in TaskIds : WorkerGet(t)
    \/ \E t \in TaskIds, ok \in BOOLEAN : Connect(t, ok)
    \/ \E t \in TaskIds, ok \in BOOLEAN : RuntimeDone(t, ok)
    \/ \E t \in TaskIds, outcome \in CleanupOutcomes : Cleanup(t, outcome)

SpecHandles == Init /\ [][NextHandles]_vars

\* The process: _run_dispatcher starts the dispatcher and the watcher, whose
\* tasks run beside it, until an interrupt reaches it; the calls it awaits are
\* the start() and stop() of the dispatcher and of the watcher.
InitCli ==
    /\ DispatcherInit(SingleWorkerSettings)
    /\ MainInit
    /\ SinksInit({})
    /\ WatcherInit(<<DefWeb>>)

\* no Watcher.stop() call is in progress or has returned
NoWatcherStopYet ==
    /\ \A c \in StopCallIds : wStop[c].pc = "idle"
    /\ wEvent.kind # "stop returned"

NextCli ==
    \/ cli.pc = "dispatcher.start" /\ ~running /\ Start
    \/ CliStarted
    \/ cli.pc = "watcher.start" /\ wTask = 0 /\ WatcherStart
    \/ CliWatching
    \/ \E kind \in InterruptKinds : Interrupt(kind)
    \/ CliFinally
    \/ \E c \in StopCallIds :
          cli.pc = "watcher.stop" /\ NoWatcherStopYet /\ WatcherStopBegin(c)
    \/ \E c \in StopCallIds : WatcherStopReturn(c)
    \/ CliWatcherStopped
    \/ cli.pc = "dispatcher.stop" /\ nStop = 0 /\ StopBegin
    \/ StopReturn
    \/ CliDispatcherStopped
    \/ /\ cli.pc # "exited"
       /\ \/ \E res \in HandleResources :
                nDispatch < MaxLifecycleDispatch /\ Dispatch(res, 0)
          \/ \E t \in TaskIds : WorkerStart(t)
          \/ \E t \in TaskIds : WorkerGet(t)
          \/ \E t \in TaskIds, ok \in BOOLEAN : Connect(t, ok)
          \/ \E t \in TaskIds, ok \in BOOLEAN : RuntimeDone(t, ok)
          \/ \E t \in TaskIds, outcome \in CleanupOutcomes : Cleanup(t, outcome)
          \/ \E t \in TaskIds : Cancelled(t)
          \/ \E t \in PollTaskIds : PollStep(t)

SpecCli == InitCli /\ [][NextCli]_vars

\* One call of _parse_duration_seconds on any of the values
NextDuration == call = NoCall /\ \E value \in DurationValues : ParseDuration(value)

SpecDuration == InitWith(LifecycleSettings) /\ [][NextDuration]_vars

\* Admission beside a worker that dequeues: dispatch calls of several callers
\* at any reading of the clock, and a worker whose incidents succeed
NextInterleaved ==
    \/ \E res \in Resources, later \in {0, 1} :
          nDispatch < MaxDispatch /\ Dispatch(res, later)
    \/ Tick
    \/ Start
    \/ \E t \in TaskIds : WorkerStart(t)
    \/ \E t \in TaskIds : WorkerGet(t)
    \/ \E t \in TaskIds : Connect(t, TRUE)
    \/ \E t \in TaskIds : RuntimeDone(t, TRUE)
    \/ \E t \in TaskIds : Cleanup(t, "ok")

SpecInterleaved == InitAdmission /\ [][NextInterleaved]_vars

\* the steps of worker task t that end an await
WorkerStep(t) ==
    \/ WorkerStart(t)
    \/ WorkerGet(t)
    \/ \E ok \in BOOLEAN : Connect(t, ok)
    \/ \E ok \in BOOLEAN : RuntimeDone(t, ok)
    \/ \E outcome \in CleanupOutcomes : Cleanup(t, outcome)

\* The event loop runs every worker task that can go on, and every await of
\* run_incident (connect, the runtime, cleanup) ends
SpecWorkersLive ==
    /\ SpecHandles
    /\ \A t \in 1..LifecycleSettings.worker_concurrency : WF_vars(WorkerStep(t))

\* a resource definition of the card "db-card" that every alert matches
DefDbAll ==
    [name |-> "db", type |-> "prometheus_alert", filters |-> <<>>,
     annotations |-> <<>>]

\* _resource_defs in which one alert matches two definitions that have cards
OrderConfigs == { <<DefWeb, DefDbAll>>, <<DefDbAll, DefWeb>> }

\* responses with the alerts in either order
OrderResponses ==
    { AlertsBody(JList(<<AlertDisk, AlertCpu>>)),
      AlertsBody(JList(<<AlertCpu, AlertDisk>>)) }

\* a dispatcher of one worker whose queue holds every alert of a poll
OrderSettings == [SingleWorkerSettings EXCEPT !.queue_size = 3]

\* the dedupe keys of the resources such a poll dispatches
OrderKeys ==
    { dedupe_key(ResourceFor(alert, def)) :
         alert \in {AlertDisk, AlertCpu}, def \in {DefWeb, DefDbAll} }

\* One poll of a watcher whose dispatch calls are PrometheusDispatcher.dispatch,
\* beside the single worker of that dispatcher
InitOrder ==
    /\ DispatcherInitFor(OrderSettings, OrderKeys)
    /\ MainInit
    /\ SinksInit({})
    /\ \E defs \in OrderConfigs : WatcherInit(defs)

\* the Resource of the dispatch call poll task t is making
CallResource(t) ==
    ResourceFor(poll[t].alerts[poll[t].ai], wConfig.resource_defs[poll[t].di])

\* `await self._dispatcher.dispatch(notification)` of poll task t: the call
\* runs (dispatch has no await)
PollDispatch(t) ==
    /\ pollTasks[t].pc = "dispatching"
    /\ nDispatch < poll[t].calls
    /\ Dispatch(CallResource(t), 0)

\* ... and the watcher goes on with the result
PollDispatched(t) ==
    /\ nDispatch = poll[t].calls
    /\ DispatchDone(t, lastDispatch.status)

NextOrder ==
    \/ Start
    \/ wTask = 0 /\ WatcherStart
    \/ \E t \in PollTaskIds : PollTaskRun(t)
    \/ \E t \in PollTaskIds : \E resp \in OrderResponses : FetchDone(t, resp)
    \/ \E t \in PollTaskIds : PollDispatch(t)
    \/ \E t \in PollTaskIds : PollDispatched(t)
    \/ \E t \in TaskIds : WorkerStart(t)
    \/ \E t \in TaskIds : WorkerGet(t)
    \/ \E t \in TaskIds, ok \in BOOLEAN : Connect(t, ok)
    \/ \E t \in TaskIds, ok \in BOOLEAN : RuntimeDone(t, ok)
    \/ \E t \in TaskIds : Cleanup(t, "ok")

SpecOrder == InitOrder /\ [][NextOrder]_vars

\* MCPServerRegistry.resolve on every list of identifier texts, one call in a
\* behaviour
NextIdentifiers ==
    /\ call = NoCall
    /\ \E texts \in SeqsUpTo(IdentifierTexts, MaxIdents) : ResolveIdentifiers(texts)

SpecIdentifiers == InitWith(LifecycleSettings) /\ [][NextIdentifiers]_vars

\* _resource_defs with a definition that has no incident card ("any")
CountConfigs ==
    { <<DefWeb, DefDbAll>>, <<DefWeb, DefAny>>, <<DefDbAll, DefAny, DefWeb>> }

\* responses with an alert listed twice, with more matches than the queue
\* holds, with no alert, and a failed GET
CountResponses ==
    { AlertsBody(JList(<<AlertCpu, AlertCpu>>)),
      AlertsBody(JList(<<AlertCpu, AlertDisk>>)),
      AlertsBody(JList(<<AlertDisk, AlertCpu, AlertDisk>>)),
      AlertsBody(JList(<<AlertCpu, AlertDisk, AlertCpu>>)),
      AlertsBody(JList(<<AlertDisk>>)),
      AlertsBody(JList(<<>>)),
      Response("status error", FALSE, JNull) }

\* the dedupe keys of the resources such a poll dispatches
CountKeys ==
    { dedupe_key(ResourceFor(alert, def)) :
         alert \in {AlertDisk, AlertCpu}, def \in {DefWeb, DefDbAll, DefAny} }

\* One poll of a watcher whose dispatch calls are PrometheusDispatcher.dispatch
\* of a dispatcher with a queue of two and no worker started
InitCount ==
    /\ DispatcherInitFor(LifecycleSettings, CountKeys)
    /\ MainInit
    /\ SinksInit({})
    /\ \E defs \in CountConfigs : WatcherInit(defs)

NextCount ==
    \/ wTask = 0 /\ WatcherStart
    \/ \E t \in PollTaskIds : PollTaskRun(t)
    \/ \E t \in PollTaskIds : \E resp \in CountResponses : FetchDone(t, resp)
    \/ \E t \in PollTaskIds : PollDispatch(t)
    \/ \E t \in PollTaskIds : PollDispatched(t)

SpecCount == InitCount /\ [][NextCount]_vars

\* One call of PromptRenderer.render on any of the templates
NextRender == call = NoCall /\ \E template \in Templates : Render(template)

SpecRender == InitWith(LifecycleSettings) /\ [][NextRender]_vars

(***************************************************************************)
(* Vocabulary of the properties                                            *)
(***************************************************************************)
\* this step is a dispatch() call; lastDispatch' holds its input and result
DispatchStep == nDispatch' = nDispatch + 1

\* number of queued notifications whose dedupe key is k
QueuedWithKey(k) == Cardinality({i \in DOMAIN queue : dedupe_key(queue[i]) = k})

\* positions of the cards of settings.incident_cards that name the resource
CardsFor(name) ==
    {i \in DOMAIN settings.incident_cards :
        settings.incident_cards[i].resource = name}

\* the first and the last card, in settings order, that name the resource
FirstCardFor(name) ==
    settings.incident_cards[CHOOSE i \in CardsFor(name) :
                                \A j \in CardsFor(name) : i <= j]
LastCardFor(name) ==
    settings.incident_cards[CHOOSE i \in CardsFor(name) :
                                \A j \in CardsFor(name) : i >= j]

\* the cache holds no entry that it did not hold before the step
NoEntryInserted ==
    \A k \in DOMAIN dedupe_cache' :
        k \in DOMAIN dedupe_cache /\ dedupe_cache'[k] = dedupe_cache[k]

\* a stop() call has returned, none is in progress, and start() has not been
\* called since that stop() was called
Quiesced == nStop > 0 /\ stopCall.pc = "idle" /\ ~running

(***************************************************************************)
(* Properties                                                              *)
(***************************************************************************)
\* C1: a notification dispatched less than dedupe_ttl_seconds after the
\* admission of a notification with the same dedupe key is answered
\* duplicate / "dedupe cache hit" and is not enqueued; every run_incident
\* call consumes one admitted notification, so of the two only the admitted
\* one is handled, and once.
C1_DuplicateWithinTtl ==
    /\ [][DispatchStep =>
            LET r == lastDispatch'
                k == dedupe_key(r.res)
            IN (admitAt[k] >= 0
                  /\ r.now - admitAt[k] < settings.dedupe_ttl_seconds)
               => /\ r.status = "duplicate"
                  /\ r.detail = "dedupe cache hit"
                  /\ queue' = queue
                  /\ unfinished' = unfinished
                  /\ owed' = owed]_vars
    /\ [](\A k \in Keys : owed[k] = QueuedWithKey(k))

\* C1 witness: the "pending" notification was answered duplicate while a
\* worker handles the "firing" one that has the same key
C1_Witness ==
    /\ lastDispatch.status = "duplicate"
    /\ lastDispatch.res.state = "pending"
    /\ \E t \in TaskIds :
          /\ tasks[t].pc = "running"
          /\ run[t].res.state = "firing"
          /\ dedupe_key(run[t].res) = dedupe_key(lastDispatch.res)

\* C7: a notification with a card and a dedupe key never admitted before is
\* queued while the queue holds fewer than queue_size items and dropped with
\* "queue full" once it holds queue_size; without workers the i-th such
\* dispatch is queued exactly when i <= queue_size, and the queue never holds
\* more than queue_size items.
C7_QueueBound ==
    /\ [][DispatchStep =>
            LET r == lastDispatch'
                k == dedupe_key(r.res)
            IN (admitAt[k] = -1 /\ CardsFor(r.res.name) # {})
               => IF Len(queue) < settings.queue_size
                  THEN r.status = "queued" /\ queue' = Append(queue, r.res)
                  ELSE /\ r.status = "dropped"
                       /\ r.detail = "queue full"
                       /\ queue' = queue]_vars
    /\ [](Len(queue) <= settings.queue_size)

\* C7 witness: no worker exists, two notifications were queued and the third
\* was dropped on the full queue
C7_Witness ==
    /\ nSpawned = 0
    /\ settings.queue_size = 2
    /\ nDispatch = 3
    /\ Len(queue) = 2
    /\ lastDispatch.status = "dropped"
    /\ lastDispatch.detail = "queue full"

\* C8: a dispatch dropped with "queue full" inserts no dedupe entry and
\* leaves no live entry for its key; dispatching the same notification again
\* when the queue has room returns queued.
C8_QueueFullNotCached ==
    [][DispatchStep =>
         LET r == lastDispatch'
             k == dedupe_key(r.res)
         IN /\ r.detail = "queue full"
               => /\ NoEntryInserted
                  /\ k \in DOMAIN dedupe_cache' => dedupe_cache'[k] <= r.now
            /\ (lastDispatch.detail = "queue full"
                  /\ r.res = lastDispatch.res
                  /\ Len(queue) < settings.queue_size)
               => r.status = "queued"]_vars

\* C8 witness: after a "queue full" drop the worker has emptied the queue and
\* the dropped key has no cache entry
C8_Witness ==
    /\ lastDispatch.detail = "queue full"
    /\ dedupe_key(lastDispatch.res) \notin DOMAIN dedupe_cache
    /\ queue = <<>>

\* C9: a notification whose resource name no card names is answered dropped /
\* "no incident card"; nothing is enqueued, no dedupe entry is inserted, and
\* neither the queue nor any run_incident call ever holds such a notification.
C9_NoCardDropped ==
    /\ [][DispatchStep =>
            LET r == lastDispatch'
            IN CardsFor(r.res.name) = {}
               => /\ r.status = "dropped"
                  /\ r.detail = "no incident card"
                  /\ queue' = queue
                  /\ unfinished' = unfinished
                  /\ owed' = owed
                  /\ NoEntryInserted]_vars
    /\ [](/\ \A i \in DOMAIN queue : CardsFor(queue[i].name) # {}
          /\ \A t \in TaskIds :
                run[t] # NoRun => CardsFor(run[t].res.name) # {})

\* C9 witness: the notification for resource "unknown" was dropped
C9_Witness ==
    /\ lastDispatch.res.name = "unknown"
    /\ lastDispatch.detail = "no incident card"

\* C10 as claimed: the card returned by dispatch and the card passed to
\* run_incident are the first card, in settings order, naming the resource.
C10_FirstCardWins ==
    /\ lastDispatch.status = "queued"
          => lastDispatch.card = FirstCardFor(lastDispatch.res.name)
    /\ \A t \in TaskIds :
          run[t] # NoRun => run[t].card = FirstCardFor(run[t].res.name)

\* C10, amended: the card returned by dispatch and the card passed to
\* run_incident are the last card, in settings order, naming the resource;
\* the earlier ones are ignored.
C10_LastCardWins ==
    /\ lastDispatch.status = "queued"
          => lastDispatch.card = LastCardFor(lastDispatch.res.name)
    /\ \A t \in TaskIds :
          run[t] # NoRun => run[t].card = LastCardFor(run[t].res.name)

\* C10 witness: dispatch returned the second of the two "web" cards and a
\* worker runs an incident with it
C10_Witness ==
    /\ lastDispatch.status = "queued"
    /\ lastDispatch.card.name = "web-second"
    /\ \E t \in TaskIds : run[t] # NoRun /\ run[t].card.name = "web-second"

\* the server sessions of the invocation that exited last were all connected
AllConnected == \A i \in DOMAIN last.srv : last.srv[i].connected

\* C2 as claimed: when run_incident exits after every connect() succeeded
\* and the runtime returned or raised, cleanup() has been invoked exactly once
\* on every server session.
C2_CleanupExactlyOnce ==
    (last.exit # "none" /\ last.runtime \in {"returned", "raised"}
       /\ AllConnected)
    => \A i \in DOMAIN last.srv : last.srv[i].cleanup = 1

\* C3 as claimed: when run_incident exits because a connect() failed, every
\* session connected before has had cleanup() invoked, and the runtime was
\* not invoked.
C3_ConnectFailureCleansUp ==
    last.exit = "connect failed"
    => /\ \A i \in DOMAIN last.srv :
             last.srv[i].connected => last.srv[i].cleanup >= 1
       /\ last.runtime = "none"

\* C4 as claimed: once stop() has returned and start() is not called again,
\* no worker task is alive and no run_incident call begins.
C4_NoWorkerAfterStop ==
    /\ [](Quiesced => \A t \in TaskIds : ~Alive(t))
    /\ [][Quiesced =>
            \A t \in TaskIds : run[t] = NoRun => run'[t] = NoRun]_vars

\* this step is a stop() call that takes effect, and this one a stop() call
\* made while the dispatcher is not running
StopCalledRunning == nStop' = nStop + 1 /\ running
StopCalledIdle == nStop' = nStop + 1 /\ ~running
\* this step is the return of a stop() call that took effect
StopReturned ==
    \/ stopCall.pc = "gather" /\ stopCall'.pc = "idle"
    \/ StopCalledRunning /\ stopCall'.pc = "idle"

Created == {t \in TaskIds : tasks[t].pc = "absent" /\ tasks'[t].pc # "absent"}

\* C6: a step creates worker tasks only when the dispatcher is not running,
\* and then exactly worker_concurrency of them, appended to the worker list;
\* as long as stop() has not been called, a started dispatcher has exactly
\* worker_concurrency workers, all alive, however often start() was called.
C6_StartSpawnsConcurrency ==
    /\ [][Created # {} =>
            /\ ~running /\ running'
            /\ Cardinality(Created) = settings.worker_concurrency
            /\ Len(workers') = Len(workers) + settings.worker_concurrency
            /\ Created \subseteq Range(workers')]_vars
    /\ []((running /\ nStop = 0) =>
            /\ Len(workers) = settings.worker_concurrency
            /\ Cardinality({t \in TaskIds : Alive(t)})
                  = settings.worker_concurrency
            /\ \A t \in TaskIds : Alive(t) => t \in Range(workers))

\* C6 witness: start() has run, stop() was never called, and both workers
\* are inside run_incident
C6_Witness ==
    /\ running /\ nStop = 0
    /\ Len(workers) = settings.worker_concurrency
    /\ \A i \in DOMAIN workers :
          tasks[workers[i]].pc \in {"connecting", "running", "cleanup"}

\* C11: an invocation whose runtime returned has emitted exactly
\* incident.started, incident.success, in this order; one whose runtime raised
\* has emitted exactly incident.started, incident.failure, and run_incident
\* re-raises the runtime's exception (unless cancelled during its cleanup).
C11_EventSequence ==
    /\ last.runtime = "returned"
       => /\ last.events = <<"incident.started", "incident.success">>
          /\ last.exit \in {"returned", "cancelled"}
    /\ last.runtime = "raised"
       => /\ last.events = <<"incident.started", "incident.failure">>
          /\ last.exit \in {"runtime raised", "cancelled"}
    /\ last.exit = "returned" => last.runtime = "returned"
    /\ last.exit = "runtime raised" => last.runtime = "raised"

\* C11 witness: an invocation with two connected sessions has re-raised the
\* exception of its runtime
C11_Witness ==
    /\ last.exit = "runtime raised"
    /\ Len(last.srv) = 2 /\ AllConnected
    /\ Len(last.events) = 2

\* worker t is inside run_incident
InFlight(t) == run[t] # NoRun

\* this step is the exit of worker t's run_incident by an exception of the
\* runtime or of a connect(): the notification is marked done and no other
\* worker moves
RaisedExit(t) ==
    /\ InFlight(t)
    /\ ~tasks[t].cancel
    /\ unfinished' < unfinished
    /\ last'.exit \in {"runtime raised", "connect failed"}
    /\ \A u \in TaskIds \ {t} : tasks'[u] = tasks[u] /\ run'[u] = run[u]

\* C13: when run_incident of a worker of a running dispatcher raises, the
\* worker stays alive, the notification is marked complete once, and the
\* worker takes the next queued notification (or waits for one).
C13_WorkerSurvivesFailure ==
    [][\A t \in TaskIds :
          (RaisedExit(t) /\ running)
          => /\ unfinished' = unfinished - 1
             /\ Alive(t)'
             /\ IF queue = <<>>
                THEN tasks'[t].pc = "waiting" /\ ~InFlight(t)'
                ELSE /\ InFlight(t)'
                     /\ run'[t].res = Head(queue)
                     /\ queue' = Tail(queue)]_vars

\* C13 witness: the only worker that has run so far is inside the
\* run_incident of the next notification after its previous one raised
C13_Witness ==
    /\ running
    /\ last.exit \in {"runtime raised", "connect failed"}
    /\ \E t \in TaskIds :
          /\ InFlight(t) /\ run[t].card.name # last.card
          /\ \A u \in TaskIds \ {t} : tasks[u].pc \in {"absent", "new"}

\* C14 as claimed: at most worker_concurrency run_incident calls are in
\* flight in every reachable state.
C14_InFlightBound ==
    Cardinality({t \in TaskIds : InFlight(t)}) <= settings.worker_concurrency

\* C12: emit never raises; the sinks it calls are, in list order, exactly the
\* names of the list that are configured, one call per listed name, whether
\* or not an earlier sink raised; names that are not configured are skipped.
C12_EmitNeverRaises ==
    lastEmit.outcome # "none"
    => /\ lastEmit.outcome = "returned"
       /\ lastEmit.calls =
             SelectSeq(lastEmit.names, LAMBDA n : n \in ConfiguredSinks)

\* C12 witness: the first sink of the list raises, the second name is not
\* configured, and the third sink is still called
C12_Witness ==
    /\ lastEmit.names = <<"audit", "ghost", "pager">>
    /\ "audit" \in sinkRaisers
    /\ lastEmit.calls = <<"audit", "pager">>
    /\ lastEmit.outcome = "returned"

\* the dict of alert[key] as <<key, text>> items; a missing or null entry is
\* the empty dict
FieldPairs(alert, key) ==
    IF \E i \in DOMAIN alert.fields :
          alert.fields[i][1] = key /\ alert.fields[i][2].kind = "object"
    THEN LET obj == alert.fields[CHOOSE i \in DOMAIN alert.fields :
                                    alert.fields[i][1] = key][2]
         IN [i \in DOMAIN obj.fields |->
                <<obj.fields[i][1], obj.fields[i][2].text>>]
    ELSE <<>>

\* the keys of a dict given as its items
KeysOf(pairs) == {pairs[i][1] : i \in DOMAIN pairs}

\* two dicts given as their items are equal
SameDict(p, q) ==
    /\ Range(p) = Range(q)
    /\ Cardinality(KeysOf(p)) = Len(p)
    /\ Cardinality(KeysOf(q)) = Len(q)

\* C15: the Resource of a dispatch call has the labels of the alert, the
\* annotations of the resource definition overridden key by key by those of
\* the alert, and the type and the name of the resource definition.
C15_ResourceOfAlert ==
    wEvent.kind = "dispatch"
    => LET r == wEvent.resource
           R == wEvent.def
           A_labels == FieldPairs(wEvent.alert, "labels")
           A_annotations == FieldPairs(wEvent.alert, "annotations")
       IN /\ SameDict(r.labels, A_labels)
          /\ KeysOf(r.annotations)
                = KeysOf(R.annotations) \cup KeysOf(A_annotations)
          /\ Cardinality(KeysOf(r.annotations)) = Len(r.annotations)
          /\ \A p \in Range(r.annotations) :
                IF p[1] \in KeysOf(A_annotations)
                THEN p \in Range(A_annotations)
                ELSE p \in Range(R.annotations)
          /\ r.type = R.type
          /\ r.name = R.name

\* C15 witness: an alert whose annotations override one annotation of the
\* definition and add another is dispatched
C15_Witness ==
    /\ wEvent.kind = "dispatch"
    /\ wEvent.alert = AlertCpu /\ wEvent.def = DefWeb
    /\ <<"runbook", "wiki/override">> \in Range(wEvent.resource.annotations)
    /\ <<"team", "ops">> \in Range(wEvent.resource.annotations)

\* every filter entry k=v has labels[k] = v
Satisfies(labels, filters) ==
    \A i \in DOMAIN filters : \E j \in DOMAIN labels : labels[j] = filters[i]

\* the alerts of a body of the shape {data: {alerts: [...]}}, else none
AlertsIn(resp) ==
    IF /\ resp.http = "ok" /\ resp.decodable
       /\ resp.json.kind = "object"
       /\ \E i \in DOMAIN resp.json.fields :
             /\ resp.json.fields[i][1] = "data"
             /\ resp.json.fields[i][2].kind = "object"
             /\ \E j \in DOMAIN resp.json.fields[i][2].fields :
                   /\ resp.json.fields[i][2].fields[j][1] = "alerts"
                   /\ resp.json.fields[i][2].fields[j][2].kind = "list"
    THEN LET data == resp.json.fields[CHOOSE i \in DOMAIN resp.json.fields :
                                         resp.json.fields[i][1] = "data"][2]
         IN data.fields[CHOOSE j \in DOMAIN data.fields :
                           data.fields[j][1] = "alerts"][2].items
    ELSE <<>>

\* the (alert, resource definition) pairs of a response that match
MatchingPairs(resp, defs) ==
    LET alerts == AlertsIn(resp)
    IN {p \in (DOMAIN alerts) \X (DOMAIN defs) :
          Satisfies(FieldPairs(alerts[p[1]], "labels"), defs[p[2]].filters)}

\* a poll_once call has just returned
PollReturned == wEvent.kind = "poll returned"

\* a poll_once call has just raised
PollRaised == wEvent.kind = "poll raised"

\* C16: a dispatch call is made for an alert and a resource definition only
\* if every filter entry k=v has labels[k] = v, and a poll that returns has
\* made one call for every such pair (so an empty filter set matches every
\* alert, and a missing label is a mismatch); when no alert matches any
\* definition, poll_once makes no dispatch call and returns 0.
C16_FilterMatch ==
    /\ wEvent.kind = "dispatch"
       => Satisfies(FieldPairs(wEvent.alert, "labels"), wEvent.def.filters)
    /\ PollReturned
       => /\ wEvent.calls
                = Cardinality(MatchingPairs(wEvent.resp, wConfig.resource_defs))
          /\ wEvent.count <= wEvent.calls

\* C16 witness: a poll whose only alert lacks a label one definition filters
\* on, and differs in a label the other filters on, has returned 0 without a
\* dispatch call
C16_Witness ==
    /\ PollReturned
    /\ wEvent.resp = AlertsBody(JList(<<AlertDiskNoSeverity>>))
    /\ wConfig.resource_defs = <<DefWeb, DefDb>>
    /\ wEvent.calls = 0 /\ wEvent.count = 0

\* C17: a poll whose GET failed with a transport error or a non-2xx status
\* returns 0 without raising and makes no dispatch call.
C17_RequestFailure ==
    (wEvent.kind \in {"poll returned", "poll raised"}
       /\ wEvent.resp.http \in {"transport error", "status error"})
    => /\ PollReturned
       /\ wEvent.count = 0
       /\ wEvent.calls = 0

\* C17 witness: a watcher with resource definitions has returned from a poll
\* whose GET got an error status
C17_Witness ==
    /\ PollReturned
    /\ wEvent.resp.http = "status error"
    /\ wConfig.resource_defs # <<>>

\* a decodable body has the shape {data: {alerts: [mapping, ...]}}
WellShaped(resp) ==
    /\ resp.json.kind = "object"
    /\ \E i \in DOMAIN resp.json.fields :
          /\ resp.json.fields[i][1] = "data"
          /\ resp.json.fields[i][2].kind = "object"
          /\ \E j \in DOMAIN resp.json.fields[i][2].fields :
                /\ resp.json.fields[i][2].fields[j][1] = "alerts"
                /\ resp.json.fields[i][2].fields[j][2].kind = "list"
    /\ \A k \in DOMAIN AlertsIn(resp) : AlertsIn(resp)[k].kind = "object"

\* C18 as claimed: a poll whose body decodes to a value of any other shape
\* returns 0 without raising and makes no dispatch call.
C18_UnexpectedShape ==
    (wEvent.kind \in {"poll returned", "poll raised"}
       /\ wEvent.resp.http = "ok" /\ wEvent.resp.decodable
       /\ ~WellShaped(wEvent.resp))
    => /\ PollReturned
       /\ wEvent.count = 0
       /\ wEvent.calls = 0

\* C19: a poll that raised leaves its task asleep in the loop, and, unless
\* stop() is called, the task goes on to the GET of another poll.
C19_PollLoopSurvives ==
    /\ [](PollRaised => pollTasks[wEvent.task].pc = "sleeping")
    /\ \A t \in PollTaskIds :
          (PollRaised /\ wEvent.task = t)
          ~> ((wEvent.kind = "http" /\ wEvent.task = t) \/ ~wRunning)

\* C19 witness: a poll has raised the exception of its dispatch call
C19_Witness ==
    /\ PollRaised
    /\ wEvent.resp = AlertsBody(JList(<<AlertCpu>>))
    /\ wEvent.calls = 1
    /\ wRunning

\* no stop() call is in progress and start() was not called since the last one
WatcherIdle ==
    /\ ~wRunning /\ wTask = 0
    /\ \A c \in StopCallIds : wStop[c].pc = "idle"

\* a stop() call has just returned, no other is in progress and start() was
\* not called since
WatcherStopped == wEvent.kind = "stop returned" /\ WatcherIdle

\* C20 as claimed: when stop() has returned the poll task has terminated,
\* afterwards the watcher makes no HTTP request and no dispatch call, and a
\* stop() of a watcher that is not started changes nothing.
C20_StopEndsPolling ==
    /\ [](WatcherStopped =>
            \A t \in PollTaskIds : pollTasks[t].pc \in {"absent", "done"})
    /\ [][WatcherIdle => wEvent'.kind \notin {"http", "dispatch"}]_vars
    /\ [][(WatcherIdle /\ wEvent'.kind = "stop returned")
            => UNCHANGED <<wRunning, wTask, pollTasks, poll, wStop>>]_vars

\* C21: two resources of equal type, name and timestamp whose labels are the
\* same mapping and whose annotations are the same mapping, in whatever
\* insertion order, have the same dedupe key.
C21_KeyIgnoresInsertionOrder ==
    (/\ call.fn = "dedupe_key"
     /\ call.r1.type = call.r2.type
     /\ call.r1.name = call.r2.name
     /\ call.r1.timestamp = call.r2.timestamp
     /\ SameDict(call.r1.labels, call.r2.labels)
     /\ SameDict(call.r1.annotations, call.r2.annotations))
    => call.key1 = call.key2

\* C21 witness: the keys of two resources whose labels and whose annotations
\* were inserted in opposite orders are equal
C21_Witness ==
    /\ call.fn = "dedupe_key"
    /\ call.r1.labels = << <<"c", "a">>, <<"a", "b">> >>
    /\ call.r2.labels = << <<"a", "b">>, <<"c", "a">> >>
    /\ call.r1.annotations = << <<"b", "c">>, <<"a", "b">> >>
    /\ call.r2.annotations = << <<"a", "b">>, <<"b", "c">> >>
    /\ call.r1.timestamp = call.r2.timestamp
    /\ call.key1 = call.key2
    /\ call.key1 = "prometheus_alert|web|a=b,c=a|a=b,b=c"

\* resolve() was called with identifiers of grafana only, all of them naming
\* a tool
ExplicitGrafana ==
    /\ call.fn = "resolve"
    /\ call.idents # <<>>
    /\ \A i \in DOMAIN call.idents :
          /\ call.idents[i].server = "grafana"
          /\ call.idents[i].sep
          /\ call.idents[i].tool \notin {"", "*"}

\* C22 as claimed: "grafana.*", for a server without default_allowed_tools,
\* resolves to one handle whose allowed tools are null; identifiers that name
\* tools of grafana ("grafana.alerts" with "grafana.search") resolve to one
\* handle whose allowed tools are the sorted list of the tools named.
C22_AllowListOfHandle ==
    /\ (call.fn = "resolve" /\ call.idents = <<Ident("grafana", TRUE, "*")>>)
       => /\ Len(call.handles) = 1
          /\ call.handles[1].name = "grafana"
          /\ call.handles[1].allowed_tools.is_none
    /\ ExplicitGrafana
       => /\ Len(call.handles) = 1
          /\ call.handles[1].name = "grafana"
          /\ ~call.handles[1].allowed_tools.is_none
          /\ Range(call.handles[1].allowed_tools.tools)
                = {call.idents[i].tool : i \in DOMAIN call.idents}
          /\ (call.idents = <<Ident("grafana", TRUE, "search"),
                              Ident("grafana", TRUE, "alerts")>>
              => call.handles[1].allowed_tools.tools = <<"alerts", "search">>)

\* the identities of the handles of the run_incident invocation of worker t
HandleIds(inv) == {inv.srv[i].id : i \in DOMAIN inv.srv}

\* this step begins a run_incident invocation in worker t
Begins(t) ==
    /\ run'[t] # run[t]
    /\ \E k \in Keys : owed'[k] < owed[k]

\* C23: resolve hands run_incident handles that were never handed out
\* before and that no connection was opened on, and at any time the handles
\* that two run_incident invocations connect, use or clean up are different
\* objects, also when both invocations are for the same card.
C23_HandlesExclusive ==
    /\ [](\A t1, t2 \in TaskIds :
            t1 # t2 => HandleIds(run[t1]) \cap HandleIds(run[t2]) = {})
    /\ [](\A t \in TaskIds :
            Cardinality(HandleIds(run[t])) = Len(run[t].srv))
    /\ [][\A t \in TaskIds :
            Begins(t) =>
               /\ \A i \in DOMAIN run'[t].srv :
                     /\ run'[t].srv[i].id > nHandles
                     /\ ~run'[t].srv[i].connected
                     /\ run'[t].srv[i].cleanup = 0
               /\ nHandles' = nHandles + Len(run'[t].srv)]_vars
    /\ [](\A t \in TaskIds : HandleIds(run[t]) \subseteq 1..nHandles)

\* C23 witness: two incidents of the same card are in flight, each with a
\* connected grafana handle of its own, one of them already in its runtime
C23_Witness ==
    \E t1, t2 \in TaskIds :
        /\ t1 # t2
        /\ run[t1].card.name = "web-second" /\ run[t2].card.name = "web-second"
        /\ run[t1].srv[1].connected /\ run[t2].srv[1].connected
        /\ run[t1].srv[1].name = "grafana" /\ run[t2].srv[1].name = "grafana"
        /\ run[t1].srv[1].id # run[t2].srv[1].id
        /\ tasks[t1].pc = "running" /\ tasks[t2].pc = "connecting"

(***************************************************************************)
(* C24: when an interrupt (KeyboardInterrupt, or the cancellation of the   *)
(* main task) reaches _run_dispatcher, also while the watcher service is   *)
(* starting, the shutdown calls watcher_service.stop() first and then      *)
(* dispatcher.stop(), each once, the dispatcher's only if its start() had  *)
(* completed; when the process exits its exit code is 0, the watcher has   *)
(* no poll task left and a started dispatcher has no worker left.          *)
(***************************************************************************)
C24_InterruptShutdown ==
    /\ cli.calls \in {<<>>, <<"watcher.stop">>, <<"watcher.stop", "dispatcher.stop">>}
    /\ nStop <= 1
    /\ "dispatcher.stop" \in Range(cli.calls) => cli.started
    /\ cli.started => nSpawned = settings.worker_concurrency
    /\ cli.pc = "exited" =>
          /\ cli.interrupt \in InterruptKinds
          /\ cli.exit_code = 0
          /\ cli.calls = IF cli.started
                         THEN <<"watcher.stop", "dispatcher.stop">>
                         ELSE <<"watcher.stop">>
          /\ nStop = IF cli.started THEN 1 ELSE 0
          /\ ~wRunning /\ wTask = 0
          /\ \A t \in PollTaskIds : pollTasks[t].pc \in {"absent", "done"}
          /\ cli.started => ~running /\ \A t \in TaskIds : ~Alive(t)

\* the process has exited after a KeyboardInterrupt that arrived while the
\* watcher service was starting, having stopped the watcher and the dispatcher
C24_Witness ==
    /\ cli.pc = "exited"
    /\ cli.at = "watcher.start"
    /\ cli.interrupt = "KeyboardInterrupt"
    /\ cli.calls = <<"watcher.stop", "dispatcher.stop">>
    /\ nStop = 1

\* the characters are digits, at least one
AllDigits(chars) == chars # <<>> /\ \A i \in 1..Len(chars) : IsDigit(chars[i])

\* the call parsed this value
Parsed(value) == call.fn = "parse_duration_seconds" /\ call.value = value

\* the call returned this number of seconds
Yields(n) == call.result.ok /\ call.result.seconds = n

(***************************************************************************)
(* C25: _parse_duration_seconds returns whole seconds, at least 1: "5s", 5 *)
(* and "5000ms" give 5, "1m" gives 60, "1h" gives 3600; a positive         *)
(* duration below one second (a number, or digits followed by "ms", or     *)
(* "0.5s") gives 1; a zero or negative duration raises ValueError.         *)
(***************************************************************************)
C25_DurationNormalised ==
    call.fn = "parse_duration_seconds" =>
        LET v == call.value
            r == call.result
            units == {<<>>, <<"s">>, <<"m">>, <<"h">>, <<"m", "s">>}
        IN /\ r.ok => r.seconds \in Nat /\ r.seconds >= 1
           /\ ~r.ok => r.error = "ValueError"
           /\ v \in {Str(<<"5", "s">>), IntValue(5),
                     Str(<<"5", "0", "0", "0", "m", "s">>)} => Yields(5)
           /\ v = Str(<<"1", "m">>) => Yields(60)
           /\ v = Str(<<"1", "h">>) => Yields(3600)
           /\ v.type # "str" =>
                 /\ ~v.number.neg /\ v.number.whole = 0 /\ v.number.num > 0 => Yields(1)
                 /\ v.number.neg \/ (v.number.whole = 0 /\ v.number.num = 0) => ~r.ok
           /\ v.type = "str" =>
                 /\ \A ds \in {DropLast(v.chars, 2)} :
                       /\ v.chars = ds \o <<"m", "s">>
                       /\ AllDigits(ds)
                       /\ DigitsValue(ds) \in 1..999
                       => Yields(1)
                 /\ v.chars \in {<<"0", ".", "5">>, <<"0", ".", "5", "s">>} => Yields(1)
                 /\ v.chars # <<>> /\ v.chars[1] = "-" => ~r.ok
                 /\ \A u \in units :
                       /\ Len(v.chars) > Len(u)
                       /\ v.chars = DropLast(v.chars, Len(u)) \o u
                       /\ AllDigits(DropLast(v.chars, Len(u)))
                       /\ DigitsValue(DropLast(v.chars, Len(u))) = 0
                       => ~r.ok

\* "500ms", half a second, has been parsed to 1
C25_Witness ==
    /\ Parsed(Str(<<"5", "0", "0", "m", "s">>))
    /\ Yields(1)

(***************************************************************************)
(* C26: dispatch() has no await: each call is one step, always possible,   *)
(* that ends with status queued, duplicate or dropped; on a full queue it  *)
(* answers dropped / "queue full" and leaves the queue alone rather than   *)
(* wait.  However dispatch calls and worker steps interleave, a            *)
(* notification is queued only when the cache holds no unexpired entry for *)
(* its dedupe key, so two admissions of one key are at least               *)
(* dedupe_ttl_seconds apart, and the admission writes the key's entry.     *)
(***************************************************************************)
C26_SerialisedAdmission ==
    /\ [](Len(queue) >= settings.queue_size =>
             \A res \in Resources : ENABLED Dispatch(res, 0))
    /\ [][DispatchStep =>
            LET r == lastDispatch'
                k == dedupe_key(r.res)
                ttl == settings.dedupe_ttl_seconds
            IN /\ r.status \in {"queued", "duplicate", "dropped"}
               /\ r.status = "queued" =>
                     /\ ~(k \in DOMAIN dedupe_cache /\ dedupe_cache[k] > r.now)
                     /\ admitAt[k] >= 0 => r.now - admitAt[k] >= ttl
                     /\ queue' = Append(queue, r.res)
                     /\ dedupe_cache'[k] = r.now + ttl
               /\ r.status # "queued" => queue' = queue
               /\ (Len(queue) = settings.queue_size /\ r.status # "duplicate")
                     => r.status = "dropped"]_vars
    /\ [](\A k \in DOMAIN dedupe_cache :
             admitAt[k] >= 0 /\ dedupe_cache[k] = admitAt[k] + settings.dedupe_ttl_seconds)

\* a key is admitted a second time, its entry having expired, while a worker
\* still handles the notification of its first admission
C26_Witness ==
    /\ lastDispatch.status = "queued"
    /\ lastDispatch.now >= settings.dedupe_ttl_seconds
    /\ \E t \in TaskIds :
          /\ tasks[t].pc = "running"
          /\ dedupe_key(run[t].res) = dedupe_key(lastDispatch.res)

\* the workers inside run_incident
WorkersInFlight == {t \in TaskIds : InFlight(t)}

(***************************************************************************)
(* C27: the queue's count of unfinished tasks always equals the queued     *)
(* notifications plus those a worker has dequeued and is handling: every   *)
(* exit of run_incident (returned, raised, cancelled) marks its            *)
(* notification done, once, so the count is 0, and a join() completes,     *)
(* whenever the queue is empty and no worker is in run_incident.           *)
(***************************************************************************)
C27_TaskDoneOnce ==
    /\ [](unfinished = Len(queue) + Cardinality(WorkersInFlight))
    /\ []((queue = <<>> /\ WorkersInFlight = {}) => unfinished = 0)
    /\ [][/\ unfinished' >= unfinished - 1
          /\ \A t \in TaskIds :
                InFlight(t) /\ ~InFlight(t)' => unfinished' = unfinished - 1
          /\ unfinished' < unfinished =>
                \E t \in TaskIds :
                   /\ InFlight(t)
                   /\ last'.card = run[t].card.name
                   /\ last'.exit \in {"returned", "runtime raised",
                                      "connect failed", "cancelled"}]_vars

\* a worker was cancelled inside run_incident, and every notification that
\* was queued has been marked done
C27_Witness ==
    /\ last.exit = "cancelled"
    /\ nDispatch = MaxLifecycleDispatch
    /\ queue = <<>> /\ WorkersInFlight = {}
    /\ unfinished = 0

\* the card the dispatcher indexed for the resource of a notification
IndexedCard(res) == CardIndex(settings.incident_cards, res.name)

\* a worker is inside run_incident for a notification of dedupe key k, with
\* the card indexed for its resource
Handling(k) ==
    \E t \in TaskIds :
       /\ InFlight(t)
       /\ dedupe_key(run[t].res) = k
       /\ run[t].card = IndexedCard(run[t].res)

(***************************************************************************)
(* C28: while the dispatcher runs and every await of run_incident ends, a  *)
(* notification that dispatch queued is eventually passed to run_incident  *)
(* with the card indexed for its resource name.  It is passed once: a      *)
(* run_incident call begins only by taking the head of the queue, in one   *)
(* worker, and every notification that leaves the queue begins one, so the *)
(* admissions of a key minus the run_incident calls for it are the         *)
(* notifications of that key still queued.                                 *)
(***************************************************************************)
C28_QueuedIsHandledOnce ==
    /\ \A res \in HandleResources :
          (running /\ owed[dedupe_key(res)] > 0) ~> Handling(dedupe_key(res))
    /\ [](\A k \in Keys : owed[k] = QueuedWithKey(k))
    /\ [][\A t \in TaskIds :
             Begins(t) =>
                /\ queue # <<>>
                /\ queue' = Tail(queue)
                /\ run'[t].res = Head(queue)
                /\ run'[t].card = IndexedCard(Head(queue))
                /\ owed'[dedupe_key(Head(queue))] = owed[dedupe_key(Head(queue))] - 1
                /\ \A u \in TaskIds \ {t} : run'[u] = run[u]]_vars
    /\ [][Len(queue') < Len(queue) => \E t \in TaskIds : Begins(t)]_vars

\* two notifications were queued and each is in run_incident, in two workers
C28_Witness ==
    /\ \A k \in Keys : owed[k] = 0
    /\ \E t, u \in TaskIds :
          /\ t # u
          /\ InFlight(t) /\ InFlight(u)
          /\ run[t].res # run[u].res

(***************************************************************************)
(* C29 as claimed: when run_incident of a worker ends by the cancellation  *)
(* of stop(), cleanup() has been invoked on every session that was         *)
(* connected; a worker whose cancellation is pending begins no further     *)
(* run_incident; and stop() returns only when the workers it awaited are   *)
(* done.                                                                   *)
(***************************************************************************)
C29_CancelledIncidentCleansUp ==
    /\ [](last.exit = "cancelled" =>
             \A i \in DOMAIN last.srv :
                last.srv[i].connected => last.srv[i].cleanup >= 1)
    /\ [][\A t \in TaskIds : tasks[t].cancel => ~Begins(t)]_vars
    /\ [][(stopCall.pc = "gather" /\ stopCall'.pc = "idle") =>
             \A t \in stopCall.waitFor : tasks[t].pc = "done" /\ ~InFlight(t)]_vars

\* pair p of (alert position, definition position) comes before pair q in
\* the order of the response, and for one alert in the configured order
Before(p, q) == p[1] < q[1] \/ (p[1] = q[1] /\ p[2] < q[2])

\* the response of the poll in progress, or of the poll that ended last
PolledResponse ==
    IF \E t \in PollTaskIds : poll[t].resp # NoResponse
    THEN poll[CHOOSE t \in PollTaskIds : poll[t].resp # NoResponse].resp
    ELSE IF wEvent.kind \in {"poll returned", "poll raised"} THEN wEvent.resp
    ELSE NoResponse

\* the place of a resource among the matches of the polled response, in that
\* order, counted from 1; 0 for a resource that is none of them
OrderOf(res) ==
    LET alerts == AlertsIn(PolledResponse)
        defs == wConfig.resource_defs
        M == MatchingPairs(PolledResponse, defs)
        of == {p \in M : ResourceFor(alerts[p[1]], defs[p[2]]) = res}
    IN IF of = {} THEN 0
       ELSE Cardinality({q \in M : Before(q, CHOOSE p \in of : TRUE)}) + 1

\* the notification in run_incident, if any, followed by the queue
Pipeline ==
    (IF WorkersInFlight = {} THEN <<>>
     ELSE <<run[CHOOSE t \in WorkersInFlight : TRUE].res>>) \o queue

(***************************************************************************)
(* C30: within one poll the k-th dispatch call is for the k-th match of    *)
(* the response, alerts in the order returned and, for one alert, resource *)
(* definitions in the configured order; an admission appends to the queue  *)
(* and nothing else adds to it; the queue loses only its head, to the      *)
(* run_incident call that begins in that step.  So with one worker the     *)
(* notification being handled and those queued behind it are always in the *)
(* order of the response.                                                  *)
(***************************************************************************)
C30_OrderPreserved ==
    /\ [][DispatchStep =>
            /\ OrderOf(lastDispatch'.res) = nDispatch'
            /\ IF lastDispatch'.status = "queued"
               THEN queue' = Append(queue, lastDispatch'.res)
               ELSE queue' = queue]_vars
    /\ [][(~DispatchStep /\ queue' # queue) =>
            /\ queue # <<>>
            /\ queue' = Tail(queue)
            /\ \E t \in TaskIds :
                  /\ run'[t] # run[t]
                  /\ run'[t].res = Head(queue)
                  /\ run'[t].events = <<"incident.started">>]_vars
    /\ [](Cardinality(WorkersInFlight) <= 1)
    /\ [](\A i, j \in DOMAIN Pipeline :
             i < j => /\ OrderOf(Pipeline[i]) > 0
                      /\ OrderOf(Pipeline[i]) < OrderOf(Pipeline[j]))

\* the first of three matches has been through run_incident, the worker
\* handles the second and the third waits in the queue
C30_Witness ==
    /\ last.exit # "none"
    /\ \E t \in TaskIds : InFlight(t) /\ OrderOf(run[t].res) = 2
    /\ Len(queue) = 1
    /\ OrderOf(queue[1]) = 3

(***************************************************************************)
(* C31: the entry written by an admission at time t is t +                 *)
(* dedupe_ttl_seconds and stays so while it is in the cache; every         *)
(* dispatch begins by purging the entries whose expires_at is not after    *)
(* the time the purge reads, so none of them is left when it returns; and  *)
(* a notification with a card, dispatched with queue space at a time not   *)
(* before t + dedupe_ttl_seconds, is queued and its key gets the entry     *)
(* now + dedupe_ttl_seconds.                                               *)
(***************************************************************************)
C31_EntryExpiresAfterTtl ==
    /\ [](\A k \in DOMAIN dedupe_cache :
             /\ admitAt[k] >= 0
             /\ dedupe_cache[k] = admitAt[k] + settings.dedupe_ttl_seconds)
    /\ [][DispatchStep =>
            LET r == lastDispatch'
                k == dedupe_key(r.res)
            IN /\ \A j \in DOMAIN dedupe_cache' : dedupe_cache'[j] > clock
               /\ (/\ admitAt[k] >= 0
                   /\ r.now >= admitAt[k] + settings.dedupe_ttl_seconds
                   /\ HasCard(CardIndex(settings.incident_cards, r.res.name))
                   /\ Len(queue) < settings.queue_size)
                  => /\ r.status = "queued"
                     /\ queue' = Append(queue, r.res)
                     /\ k \in DOMAIN dedupe_cache'
                     /\ dedupe_cache'[k] = r.now + settings.dedupe_ttl_seconds]_vars

\* C31 witness: a key admitted at time 0 and taken by the worker was
\* admitted again by a dispatch that read the time 0 + ttl: its entry is
\* now 2 * ttl
C31_Witness ==
    /\ nDispatch >= 2
    /\ lastDispatch.status = "queued"
    /\ lastDispatch.now = settings.dedupe_ttl_seconds
    /\ dedupe_cache[dedupe_key(lastDispatch.res)] = 2 * settings.dedupe_ttl_seconds
    /\ \E t \in TaskIds :
          /\ run[t] # NoRun
          /\ dedupe_key(run[t].res) = dedupe_key(lastDispatch.res)

\* this step is one iteration of _cleanup_mcp_servers in worker t, not a
\* cancellation
CleanupStep(t) ==
    /\ tasks[t].pc = "cleanup"
    /\ ~tasks[t].cancel
    /\ run'[t] # run[t]

(***************************************************************************)
(* C32: an iteration of the cleanup loop that is not the last one is       *)
(* followed by the next session's iteration whatever happened in it (its   *)
(* aclose() raised, its cleanup() raised, or neither), touching no other   *)
(* session; run_incident exits from the loop only after the last session's *)
(* iteration, and then as the runtime ended: a normal return after         *)
(* "returned", the runtime's exception after "raised", with the events     *)
(* emitted before the cleanup.                                             *)
(***************************************************************************)
C32_CleanupErrorsSwallowed ==
    [][\A t \in TaskIds : CleanupStep(t) =>
          LET inv == run[t]
              i == inv.idx
              n == Len(inv.srv)
          IN IF i < n
             THEN /\ tasks'[t].pc = "cleanup"
                  /\ run'[t].idx = i + 1
                  /\ run'[t].runtime = inv.runtime
                  /\ run'[t].events = inv.events
                  /\ \A j \in DOMAIN inv.srv :
                        j # i => run'[t].srv[j] = inv.srv[j]
                  /\ run'[t].srv[i].cleanup \in {inv.srv[i].cleanup,
                                                 inv.srv[i].cleanup + 1}
                  /\ last' = last
             ELSE /\ i = n
                  /\ run'[t] # inv
                  /\ last'.events = inv.events
                  /\ \A j \in DOMAIN inv.srv :
                        j # i => last'.srv[j] = inv.srv[j]
                  /\ inv.runtime = "returned" => last'.exit = "returned"
                  /\ inv.runtime = "raised" => last'.exit = "runtime raised"]_vars

\* C32 witness: run_incident returned normally although closing the first of
\* its two sessions raised before cleanup() was called; the second session
\* was cleaned up
C32_Witness ==
    /\ last.exit = "returned"
    /\ Len(last.srv) = 2
    /\ last.srv[1].cleanup = 0
    /\ last.srv[2].cleanup = 1
    /\ last.events = <<"incident.started", "incident.success">>

\* the server component of an identifier text
ServerOf(text) == ParseIdentifier(text).server

\* the identifiers of a list as resolve parses them
ParsedIdentifiers(texts) == [i \in DOMAIN texts |-> ParseIdentifier(texts[i])]

\* the positions of the identifiers that name the server
Naming(texts, server) == {i \in DOMAIN texts : ServerOf(texts[i]) = server}

\* the position of the first identifier that names the server
FirstNaming(texts, server) ==
    CHOOSE i \in Naming(texts, server) : \A j \in Naming(texts, server) : i <= j

\* the three ways to write the wildcard of a server
WildcardForms(server) ==
    { <<server>>, <<server, ".">>, <<server, ".", "*">> }

\* what resolve derives for a registered server from a list of identifiers
AllowedFor(texts, server) ==
    DeriveAllowedTools(ServerConfig(server),
                       GroupOf(ParsedIdentifiers(texts), server))

(***************************************************************************)
(* C33: the handles resolve returns have different server names; their     *)
(* names are the registered servers that some identifier names; they are   *)
(* in the order in which the identifiers first name them; the list without *)
(* its empty identifiers and those of unknown servers resolves to the same *)
(* handles; and replacing an identifier written `server`, `server.` or     *)
(* `server.*` by another of the three forms changes neither the handles    *)
(* nor the tools derived for any server, the wildcard being set.           *)
(***************************************************************************)
C33_GroupedByServer ==
    call.fn = "resolve" =>
       LET texts == call.texts
           h == call.handles
           known == SelectSeq(texts, LAMBDA x : ServerOf(x) \in McpServers)
       IN /\ \A i, j \in DOMAIN h : i # j => h[i].name # h[j].name
          /\ {h[i].name : i \in DOMAIN h}
                = {ServerOf(texts[i]) : i \in DOMAIN texts} \cap McpServers
          /\ \A i, j \in DOMAIN h :
                i < j => FirstNaming(texts, h[i].name)
                            < FirstNaming(texts, h[j].name)
          /\ ResolveHandles(ParsedIdentifiers(known)) = h
          /\ \A i \in DOMAIN texts, server \in McpServers :
                texts[i] \in WildcardForms(server) =>
                   /\ GroupOf(call.idents, server).wildcard
                   /\ \A form \in WildcardForms(server) :
                         LET other == [texts EXCEPT ![i] = form]
                         IN /\ ResolveHandles(ParsedIdentifiers(other)) = h
                            /\ \A srv \in McpServers :
                                  AllowedFor(other, srv) = AllowedFor(texts, srv)

\* C33 witness: "juju.status", "grafana" and "juju." resolve to the handle
\* of juju followed by that of grafana
C33_Witness ==
    /\ call.fn = "resolve"
    /\ call.texts = << <<"juju", ".", "status">>, <<"grafana">>,
                       <<"juju", ".">> >>
    /\ Len(call.handles) = 2
    /\ call.handles[1].name = "juju"
    /\ call.handles[2].name = "grafana"

\* this step is the return of the dispatch call of poll task t to
\* _handle_alert
DispatchReturns(t) ==
    /\ pollTasks[t].pc = "dispatching"
    /\ nDispatch = poll[t].calls
    /\ poll'[t] # poll[t]

\* what the result of the latest dispatch call adds to a count of the queued
Queued == IF lastDispatch.status = "queued" THEN 1 ELSE 0

(***************************************************************************)
(* C34: a dispatch call that returns adds one to the count of the poll     *)
(* when its status is queued and nothing otherwise; with no worker taking  *)
(* from the queue the count of a poll in progress is the number of         *)
(* notifications its ended calls put in the queue; and a poll that         *)
(* returns, returns that number, having made one dispatch call for every   *)
(* (alert, matching resource definition) pair of the response.             *)
(***************************************************************************)
C34_CountsQueued ==
    /\ [][\A t \in PollTaskIds : DispatchReturns(t) =>
            IF pollTasks'[t].pc = "dispatching"
            THEN poll'[t].dispatched = poll[t].dispatched + Queued
            ELSE /\ wEvent'.kind = "poll returned"
                 /\ wEvent'.count = poll[t].dispatched + Queued]_vars
    /\ [](\A t \in PollTaskIds :
            (pollTasks[t].pc = "dispatching" /\ nDispatch < poll[t].calls)
               => poll[t].dispatched = Len(queue))
    /\ [](PollReturned
            => /\ wEvent.count = Len(queue)
               /\ wEvent.calls = nDispatch
               /\ wEvent.calls
                    = Cardinality(MatchingPairs(wEvent.resp, wConfig.resource_defs)))

\* C34 witness: of the four dispatch calls of a poll one was queued, one
\* answered duplicate and two dropped for want of a card; the poll returned 1
C34_Witness ==
    /\ PollReturned
    /\ wEvent.resp = AlertsBody(JList(<<AlertCpu, AlertCpu>>))
    /\ wConfig.resource_defs = <<DefWeb, DefAny>>
    /\ wEvent.calls = 4
    /\ wEvent.count = 1
    /\ lastDispatch.detail = "no incident card"

RECURSIVE OnlyPlaceholders(_)
\* the template is made of "${name}" placeholders and blanks
OnlyPlaceholders(t) ==
    \/ t = <<>>
    \/ t[1] = " " /\ OnlyPlaceholders(Tail(t))
    \/ /\ Len(t) >= 4
       /\ t[1] = "$" /\ t[2] = "{" /\ IsIdentifier(t[3]) /\ t[4] = "}"
       /\ OnlyPlaceholders(From(t, 5))

RECURSIVE Substituted(_)
\* such a template with the value for every placeholder of a key and the
\* empty string for every other placeholder
Substituted(t) ==
    IF t = <<>> THEN <<>>
    ELSE IF t[1] = " " THEN <<" ">> \o Substituted(Tail(t))
    ELSE (IF t[3] \in ContextKeys THEN <<ContextValue(t[3])>> ELSE <<>>)
         \o Substituted(From(t, 5))

(***************************************************************************)
(* C35 as claimed: render returns a text for every template, the raw       *)
(* template when the substitution raised; and in a template of "${name}"   *)
(* placeholders and blanks, placeholders of keys and of other names mixed, *)
(* every placeholder of a key renders as its value and every other         *)
(* placeholder as the empty string.                                        *)
(***************************************************************************)
C35_MissingRendersEmpty ==
    call.fn = "render" =>
       /\ call.result.fell_back => call.result.text = call.template
       /\ OnlyPlaceholders(call.template)
             => call.result.text = Substituted(call.template)

(***************************************************************************)
(* C36: a dispatch answered duplicate or dropped leaves the queue and its  *)
(* count of unfinished items as they were, inserts no entry and changes    *)
(* none; the entries it removes had expired when it began, so every entry  *)
(* that had not is still there with its expires_at.  The entry that makes  *)
(* a notification a duplicate stays admission time + dedupe_ttl_seconds.   *)
(***************************************************************************)
C36_RejectionChangesNothing ==
    [][(DispatchStep /\ lastDispatch'.status \in {"duplicate", "dropped"}) =>
          LET r == lastDispatch'
              k == dedupe_key(r.res)
          IN /\ queue' = queue
             /\ unfinished' = unfinished
             /\ owed' = owed
             /\ NoEntryInserted
             /\ \A j \in DOMAIN dedupe_cache :
                   IF dedupe_cache[j] > clock
                   THEN j \in DOMAIN dedupe_cache'
                   ELSE j \notin DOMAIN dedupe_cache'
             /\ r.status = "duplicate"
                   => /\ k \in DOMAIN dedupe_cache'
                      /\ dedupe_cache'[k]
                           = admitAt[k] + settings.dedupe_ttl_seconds
                      /\ admitAt' = admitAt]_vars

\* C36 witness: the third dispatch, later than the admission of its key, was
\* answered duplicate; it purged the expired entry of another key and the
\* entry of its own key is the only one left, unchanged
C36_Witness ==
    LET k == dedupe_key(lastDispatch.res)
    IN /\ nDispatch = 3
       /\ lastDispatch.status = "duplicate"
       /\ lastDispatch.now > admitAt[k]
       /\ DOMAIN dedupe_cache = {k}
       /\ dedupe_cache[k] = admitAt[k] + settings.dedupe_ttl_seconds
       /\ \E j \in Keys : j # k /\ admitAt[j] >= 0

(***************************************************************************)
(* C37: only dispatch() writes the dedupe cache: no step of a worker (an   *)
(* incident that begins, fails, returns or is cancelled), of start() or of *)
(* stop() removes or changes an entry.  So the entry of every admitted     *)
(* notification is there, admission time + dedupe_ttl_seconds, until the   *)
(* ttl has passed, whatever became of the incident, and a dispatch of the  *)
(* same key before that is answered duplicate.                             *)
(***************************************************************************)
C37_EntryOutlivesOutcome ==
    /\ [][~DispatchStep => dedupe_cache' = dedupe_cache]_vars
    /\ [](\A k \in Keys :
            (admitAt[k] >= 0 /\ clock - admitAt[k] < settings.dedupe_ttl_seconds)
               => /\ k \in DOMAIN dedupe_cache
                  /\ dedupe_cache[k] = admitAt[k] + settings.dedupe_ttl_seconds)
    /\ [][DispatchStep =>
            LET r == lastDispatch'
                k == dedupe_key(r.res)
            IN (admitAt[k] >= 0
                  /\ r.now - admitAt[k] < settings.dedupe_ttl_seconds)
               => /\ r.status = "duplicate"
                  /\ dedupe_cache'[k] = dedupe_cache[k]]_vars

\* C37 witness: the incident of the "web" notification ended with the
\* exception of the runtime, no incident is in flight and nothing is queued;
\* a second dispatch of the notification was answered duplicate
C37_Witness ==
    /\ nDispatch = 2
    /\ lastDispatch.status = "duplicate"
    /\ lastDispatch.res.name = "web"
    /\ last.exit = "runtime raised"
    /\ last.card = "web-second"
    /\ queue = <<>>
    /\ \A t \in TaskIds : run[t] = NoRun
    /\ dedupe_key(lastDispatch.res) \in DOMAIN dedupe_cache

(***************************************************************************)
(* C38 as claimed: whatever the interleaving of start() and stop() calls,  *)
(* at most worker_concurrency worker tasks are alive, every live worker is *)
(* in the worker list, and when a stop() has returned with none in         *)
(* progress and no start() since, no worker is alive.                      *)
(***************************************************************************)
C38_WorkersTracked ==
    /\ Cardinality({t \in TaskIds : Alive(t)}) <= settings.worker_concurrency
    /\ \A t \in TaskIds : Alive(t) => t \in Range(workers)
    /\ Quiesced => \A t \in TaskIds : ~Alive(t)

(***************************************************************************)
(* C39 as claimed: an invocation of run_incident that has returned, raised *)
(* the exception of the runtime or raised the failure of a connect() has   *)
(* emitted incident.started and then exactly one completion event,         *)
(* incident.success or incident.failure.                                   *)
(***************************************************************************)
C39_OneCompletionEvent ==
    last.exit \in {"returned", "runtime raised", "connect failed"}
    => /\ Len(last.events) = 2
       /\ last.events[1] = "incident.started"
       /\ last.events[2] \in {"incident.success", "incident.failure"}

\* the two resources of the call have the same type, name and timestamp, the
\* same label mapping and the same annotation mapping
SameComponents ==
    /\ call.r1.type = call.r2.type
    /\ call.r1.name = call.r2.name
    /\ call.r1.timestamp = call.r2.timestamp
    /\ SameDict(call.r1.labels, call.r2.labels)
    /\ SameDict(call.r1.annotations, call.r2.annotations)

\* C40 as claimed: two resources that differ in type, name, label mapping,
\* annotation mapping or timestamp have different dedupe keys.  Violated:
\* the empty parts are left out of the join, so labels {a: b} without
\* annotations and annotations {a: b} without labels give the same key.
C40_KeySeparatesComponents ==
    (call.fn = "dedupe_key" /\ call.key1 = call.key2) => SameComponents

====
